---- MODULE Spec2Model ----
(***************************************************************************)
(* Session telemetry and alerting engine of the LockIn AI dashboard: the   *)
(* React component App in its latest revision, src/unnamed/part_000 lines  *)
(* 614-1706.                                                               *)
(*                                                                         *)
(* Modelling conventions                                                   *)
(*  - One action is one browser task: an event handler or timer callback,  *)
(*    followed by the React render it schedules and the passive effects of *)
(*    that render, run in declaration order (the cleanups of the effects   *)
(*    whose dependencies changed, then their bodies).                      *)
(*  - Date.now() is the variable now, in milliseconds.  Time advances by   *)
(*    the clock actions, and never past the due time of a pending          *)
(*    setTimeout: a due timer callback runs before the clock moves on.     *)
(*    The resync and countdown intervals are timers too: the behaviours    *)
(*    that run their callbacks advance time with Pace, which stops at the  *)
(*    earliest due time of all pending timers.  The other behaviours leave *)
(*    these two callbacks out; they change nothing but the config messages *)
(*    sent and remainingSeconds.                                           *)
(*  - A WebSocket is a record of its readyState, the render values its     *)
(*    handlers closed over and the config messages sent on it.  A failed   *)
(*    connection runs onerror and onclose in one step: the browser fires   *)
(*    both events from the same task.                                      *)
(*  - JavaScript strings are TLA+ strings; Chars gives the characters of   *)
(*    each string of the bounded vocabulary, and toLowerCase, trim and     *)
(*    includes are computed on the characters.                             *)
(*  - An optional value (a field that may be missing, null or not a        *)
(*    number) is a set with at most one element; an optional object is a   *)
(*    sequence of length at most one.  Ratios and thresholds are in        *)
(*    hundredths, so 0.35 is 35.                                           *)
(*    Study lengths are in thousandths of a minute, so 0.025 is 25.        *)
(*  - focusLevel, a quotient sum/length of small integers, is kept as the  *)
(*    pair [num, den]; level < 0.7 is num*10 < 7*den.  This agrees with    *)
(*    the floating-point comparison: a quotient equal to 7/10 rounds to    *)
(*    the same double as the literal 0.7, and any other quotient with a    *)
(*    denominator of at most 60 differs from it by at least 1/600.         *)
(*  - The history variables (samples, sessions, episode, pushed, attempt,  *)
(*    alertLog) record what the tasks did; no handler or effect reads      *)
(*    them.                                                                *)
(***************************************************************************)
EXTENDS Integers, Sequences, FiniteSets, TLC

(***************************************************************************)
(* Strings                                                                 *)
(***************************************************************************)
Vocabulary ==
    {"", " ", "at screen", "Focused",
     "Looking Left", "LOOKING LEFT", "Looking Up", "Talking",
     "No Face", "Eyes Closed", "Using Phone", "Away",
     " focused ", "Cell Phone", "book", "cup",
     "focused", "phone", "cell phone", "tablet",
     "ipad", "talking", "no face", "left",
     "right", "up", "down", "eyes closed",
     "camera-error", "abc", "0", "-5",
     "1", "1e999", "eyes-closed"}

Chars(s) ==
    CASE s = "" -> <<>>
      [] s = " " -> <<" ">>
      [] s = "at screen" -> <<"a", "t", " ", "s", "c", "r", "e", "e", "n">>
      [] s = "Focused" -> <<"F", "o", "c", "u", "s", "e", "d">>
      [] s = "Looking Left" -> <<"L", "o", "o", "k", "i", "n", "g", " ", "L", "e", "f", "t">>
      [] s = "LOOKING LEFT" -> <<"L", "O", "O", "K", "I", "N", "G", " ", "L", "E", "F", "T">>
      [] s = "Looking Up" -> <<"L", "o", "o", "k", "i", "n", "g", " ", "U", "p">>
      [] s = "Talking" -> <<"T", "a", "l", "k", "i", "n", "g">>
      [] s = "No Face" -> <<"N", "o", " ", "F", "a", "c", "e">>
      [] s = "Eyes Closed" -> <<"E", "y", "e", "s", " ", "C", "l", "o", "s", "e", "d">>
      [] s = "Using Phone" -> <<"U", "s", "i", "n", "g", " ", "P", "h", "o", "n", "e">>
      [] s = "Away" -> <<"A", "w", "a", "y">>
      [] s = " focused " -> <<" ", "f", "o", "c", "u", "s", "e", "d", " ">>
      [] s = "Cell Phone" -> <<"C", "e", "l", "l", " ", "P", "h", "o", "n", "e">>
      [] s = "book" -> <<"b", "o", "o", "k">>
      [] s = "cup" -> <<"c", "u", "p">>
      [] s = "focused" -> <<"f", "o", "c", "u", "s", "e", "d">>
      [] s = "phone" -> <<"p", "h", "o", "n", "e">>
      [] s = "cell phone" -> <<"c", "e", "l", "l", " ", "p", "h", "o", "n", "e">>
      [] s = "tablet" -> <<"t", "a", "b", "l", "e", "t">>
      [] s = "ipad" -> <<"i", "p", "a", "d">>
      [] s = "talking" -> <<"t", "a", "l", "k", "i", "n", "g">>
      [] s = "no face" -> <<"n", "o", " ", "f", "a", "c", "e">>
      [] s = "left" -> <<"l", "e", "f", "t">>
      [] s = "right" -> <<"r", "i", "g", "h", "t">>
      [] s = "up" -> <<"u", "p">>
      [] s = "down" -> <<"d", "o", "w", "n">>
      [] s = "eyes closed" -> <<"e", "y", "e", "s", " ", "c", "l", "o", "s", "e", "d">>
      [] s = "camera-error" -> <<"c", "a", "m", "e", "r", "a", "-", "e", "r", "r", "o", "r">>
      [] s = "abc" -> <<"a", "b", "c">>
      [] s = "0" -> <<"0">>
      [] s = "-5" -> <<"-", "5">>
      [] s = "1" -> <<"1">>
      [] s = "1e999" -> <<"1", "e", "9", "9", "9">>
      [] s = "0.001" -> <<"0", ".", "0", "0", "1">>
      [] s = "0.025" -> <<"0", ".", "0", "2", "5">>
      [] s = "0.05" -> <<"0", ".", "0", "5">>
      [] s = "eyes-closed" -> <<"e", "y", "e", "s", "-", "c", "l", "o", "s", "e", "d">>

UpperCase == <<"A","B","C","D","E","F","G","H","I","J","K","L","M",
               "N","O","P","Q","R","S","T","U","V","W","X","Y","Z">>

LowerCase == <<"a","b","c","d","e","f","g","h","i","j","k","l","m",
               "n","o","p","q","r","s","t","u","v","w","x","y","z">>

toLowerCaseChar(c) ==
    IF \E i \in DOMAIN UpperCase : UpperCase[i] = c
    THEN LowerCase[CHOOSE i \in DOMAIN UpperCase : UpperCase[i] = c]
    ELSE c

\* String.prototype.toLowerCase, on characters
toLowerCase(cs) == [i \in DOMAIN cs |-> toLowerCaseChar(cs[i])]

RECURSIVE trimStart(_)
trimStart(cs) ==
    IF cs # <<>> /\ Head(cs) = " " THEN trimStart(Tail(cs)) ELSE cs

RECURSIVE trimEnd(_)
trimEnd(cs) ==
    IF cs # <<>> /\ cs[Len(cs)] = " "
    THEN trimEnd(SubSeq(cs, 1, Len(cs) - 1))
    ELSE cs

\* String.prototype.trim, on characters
trim(cs) == trimEnd(trimStart(cs))

\* String.prototype.includes, on characters
includes(cs, sub) ==
    \E i \in 0..(Len(cs) - Len(sub)) : SubSeq(cs, i + 1, i + Len(sub)) = sub

\* String(value || "").toLowerCase(), tabulated over the vocabulary
lowerCaseOf == [s \in Vocabulary |-> toLowerCase(Chars(s))]

\* String(value || "").trim().toLowerCase(), tabulated over the vocabulary
normalizedOf == [s \in Vocabulary |-> toLowerCase(trim(Chars(s)))]

\* The substrings the code searches labels for
Keywords ==
    {"phone", "book", "talking", "no face", "left", "right", "up", "down",
     "eyes closed"}

\* For each string, the keywords its lower-cased form includes
keywordsOf ==
    [s \in Vocabulary |->
        {k \in Keywords : includes(lowerCaseOf[s], Chars(k))}]

\* For each string, the keywords its normalized form includes
normalizedKeywordsOf ==
    [s \in Vocabulary |->
        {k \in Keywords : includes(normalizedOf[s], Chars(k))}]

\* normalizeState: String(value || "").trim().toLowerCase()
normalizeState(value) == normalizedOf[value]

isFocusedState(cs) == cs = Chars("focused") \/ cs = Chars("at screen")

\* normalizedState.includes(keyword), for the state of a vision sample
stateIncludes(state, keyword) == keyword \in keywordsOf[state]

\* normalized.includes(keyword), for a label normalizeState has normalized
labelIncludes(value, keyword) == keyword \in normalizedKeywordsOf[value]

(***************************************************************************)
(* Optional values                                                         *)
(***************************************************************************)
\* typeof x === "number"
isNumber(x) == x # {}

valueOf(x) == CHOOSE v \in x : TRUE

Max(a, b) == IF a >= b THEN a ELSE b

Min(a, b) == IF a <= b THEN a ELSE b

\* Math.round(ms / 1000), for ms >= 0
SecondMs == 1000

roundSeconds(ms) == (2 * ms + SecondMs) \div (2 * SecondMs)

(***************************************************************************)
(* Configuration                                                           *)
(***************************************************************************)
\* The initial value of the visionConfig state
defaultVisionConfig ==
    [hMin |-> 35, hMax |-> 65, vMin |-> 35, vMax |-> 60,
     earThreshold |-> 30, includeTalking |-> TRUE]

\* backendConfig?.include_talking ?? visionConfig.includeTalking; the
\* backendConfig state is <<>> (null) or <<config>>
effectiveIncludeTalking(backend, config) ==
    IF backend # <<>> /\ backend[1].include_talking # {}
    THEN valueOf(backend[1].include_talking)
    ELSE config.includeTalking

(***************************************************************************)
(* FocusClassifier: evaluateFocus                                          *)
(***************************************************************************)
distractedObjects ==
    {Chars("phone"), Chars("cell phone"), Chars("tablet"), Chars("ipad"),
     Chars("book")}

Verdict(f, r) == [threw |-> FALSE, focused |-> f, reason |-> r]

\* (objects || []).map(...) raises a TypeError when objects is neither
\* missing nor an array
Threw == [threw |-> TRUE, focused |-> FALSE, reason |-> "TypeError"]

hasDistractor(objects) ==
    \E i \in DOMAIN objects.items :
        lowerCaseOf[objects.items[i]] \in distractedObjects

\* The gaze-window test
centered(visionData, config) ==
    /\ isNumber(visionData.h_ratio)
    /\ isNumber(visionData.v_ratio)
    /\ valueOf(visionData.h_ratio) >= config.hMin
    /\ valueOf(visionData.h_ratio) <= config.hMax
    /\ valueOf(visionData.v_ratio) >= config.vMin
    /\ valueOf(visionData.v_ratio) <= config.vMax

\* Fault: the state label is trusted before the detected objects are read
evaluateFocusStateFirst(visionData, config, includeTalking) ==
    IF visionData.objects.kind = "other" THEN Threw
    ELSE IF \/ lowerCaseOf[visionData.state] = Chars("focused")
            \/ lowerCaseOf[visionData.state] = Chars("at screen")
        THEN Verdict(TRUE, "state")
    ELSE IF hasDistractor(visionData.objects)
        THEN Verdict(FALSE, "distractor")
    ELSE IF \/ stateIncludes(visionData.state, "phone")
            \/ stateIncludes(visionData.state, "book")
        THEN Verdict(FALSE, "distractor")
    ELSE IF includeTalking /\ stateIncludes(visionData.state, "talking")
        THEN Verdict(FALSE, "audio")
    ELSE IF stateIncludes(visionData.state, "no face")
        THEN Verdict(FALSE, "no-face")
    ELSE IF /\ isNumber(visionData.left_ear)
            /\ valueOf(visionData.left_ear) < config.earThreshold
        THEN Verdict(FALSE, "eyes-closed")
    ELSE IF centered(visionData, config)
        THEN Verdict(TRUE, "centered")
    ELSE Verdict(FALSE, "off-center")

\* evaluateFocus, with the visionConfig and effectiveIncludeTalking of the
\* render whose closure is called
evaluateFocus(visionData, config, includeTalking) ==
    IF visionData.objects.kind = "other" THEN Threw
    ELSE IF hasDistractor(visionData.objects)
        THEN Verdict(FALSE, "distractor")
    ELSE IF \/ stateIncludes(visionData.state, "phone")
            \/ stateIncludes(visionData.state, "book")
        THEN Verdict(FALSE, "distractor")
    ELSE IF includeTalking /\ stateIncludes(visionData.state, "talking")
        THEN Verdict(FALSE, "audio")
    ELSE IF stateIncludes(visionData.state, "no face")
        THEN Verdict(FALSE, "no-face")
    ELSE IF /\ isNumber(visionData.left_ear)
            /\ valueOf(visionData.left_ear) < config.earThreshold
        THEN Verdict(FALSE, "eyes-closed")
    ELSE IF \/ lowerCaseOf[visionData.state] = Chars("focused")
            \/ lowerCaseOf[visionData.state] = Chars("at screen")
        THEN Verdict(TRUE, "state")
    ELSE IF centered(visionData, config)
        THEN Verdict(TRUE, "centered")
    ELSE Verdict(FALSE, "off-center")

(***************************************************************************)
(* FocusSmoother: pushFocusResult                                          *)
(***************************************************************************)
\* The window capacity, the argument of slice(-60)
Capacity == 60

\* Fault: a full window keeps its oldest entries
sliceLastOldest(s, n) == IF Len(s) <= n THEN s ELSE SubSeq(s, 1, n)

\* Array.prototype.slice(-n)
sliceLast(s, n) == IF Len(s) <= n THEN s ELSE SubSeq(s, Len(s) - n + 1, Len(s))

RECURSIVE sum(_)
sum(s) == IF s = <<>> THEN 0 ELSE Head(s) + sum(Tail(s))

\* level < 0.7
belowThreshold(level) == level.num * 10 < 7 * level.den

\* average >= 0.7 ? "focused" : "distracted"
stateOfLevel(level) ==
    IF ~belowThreshold(level) THEN "focused" ELSE "distracted"

\* [...prevResults, isFocused ? 1 : 0].slice(-60)
nextWindow(prevResults, isFocused) ==
    sliceLast(Append(prevResults, IF isFocused THEN 1 ELSE 0), Capacity)

\* The reduce of pushFocusResult over the next window
averageOf(results) == [num |-> sum(results), den |-> Len(results)]

\* The initial value of focusLevel, and setFocusLevel(1)
levelOne == [num |-> 1, den |-> 1]

(***************************************************************************)
(* Majority label: computeMostCommonDistractor                             *)
(***************************************************************************)
\* Whether the forEach body counts the label
countsLabel(state, includeTalking) ==
    /\ normalizeState(state) # <<>>
    /\ ~isFocusedState(normalizeState(state))
    /\ (includeTalking \/ ~labelIncludes(state, "talking"))

\* The indexes of the labels the forEach body counts
countedIndexes(states, includeTalking) ==
    {i \in DOMAIN states : countsLabel(states[i], includeTalking)}

\* counts: the keys of the counted labels, each with its count
labelCounts(states, indexes) ==
    [key \in {normalizeState(states[i]) : i \in indexes} |->
        Cardinality({i \in indexes : normalizeState(states[i]) = key})]

\* The keys with the greatest count
bestKeys(counts) ==
    {key \in DOMAIN counts :
        \A other \in DOMAIN counts : counts[other] <= counts[key]}

\* Object.entries enumerates the keys in insertion order and the scan keeps
\* the first key with the greatest count; labels[key] is the spelling of
\* the first label with that key, so the result is the earliest label among
\* those whose key has the greatest count
firstOf(indexes, states) ==
    IF indexes = {} THEN ""
    ELSE states[CHOOSE i \in indexes : \A j \in indexes : i <= j]

\* The indexes of the labels whose key has the greatest count
mostCounted(states, includeTalking) ==
    UNION {UNION {{i \in indexes : normalizeState(states[i]) \in best} :
                    best \in {bestKeys(labelCounts(states, indexes))}} :
             indexes \in {countedIndexes(states, includeTalking)}}

computeMostCommonDistractor(states, includeTalking) ==
    firstOf(mostCounted(states, includeTalking), states)

(***************************************************************************)
(* Alert category and asset: alertKeyForState, characterAssets             *)
(***************************************************************************)
alertKeyForState(value, includeTalking) ==
    IF normalizeState(value) = <<>> THEN ""
    ELSE IF labelIncludes(value, "left") \/ labelIncludes(value, "right")
        THEN "side"
    ELSE IF labelIncludes(value, "up") THEN "up"
    ELSE IF \/ labelIncludes(value, "phone")
            \/ labelIncludes(value, "book")
            \/ labelIncludes(value, "down")
        THEN "phone"
    ELSE IF labelIncludes(value, "eyes closed") THEN "up"
    ELSE IF labelIncludes(value, "talking")
        THEN IF includeTalking THEN "talking" ELSE ""
    ELSE ""

Characters == {"cop", "animegirl"}

AlertKeys == {"side", "up", "phone", "talking"}

\* characterAssets[characterChoice]?.[alertKey]: the asset, <<>> for none
assetFor(characterChoice, alertKey) ==
    IF characterChoice \in Characters /\ alertKey \in AlertKeys
    THEN <<characterChoice, alertKey>>
    ELSE <<>>

(***************************************************************************)
(* State                                                                   *)
(***************************************************************************)
VARIABLES
    now,              \* Date.now(), ms
    lessonStarted, trackingEnabled, currentState, remainingSeconds,
    focusResults, focusLevel, sessionSummary, sessionTimeline,
    visionStatus, visionState, visionFrame, backendConfig, distractorReason,
    cameraError, visionConfig, characterChoice, alertQueue, activeAlert,
    recentStates,     \* recentStatesRef
    socketRef,        \* socketRef: index into sockets, 0 for null
    sockets,          \* the WebSocket objects created so far
    alertTimeout,     \* alertTimeoutRef and the timer it names
    alertQueued,      \* alertQueuedRef
    sessionStart,     \* sessionStartRef: {} for null
    distractedStart,  \* distractedStartRef: {} for null
    distractedTotal,  \* distractedTotalRef
    distractedCount,  \* distractedCountRef
    resync,           \* the interval of the config resync effect
    countdown,        \* the interval of the countdown effect
    samples,          \* history: number of inbound messages delivered
    sessions,         \* history: number of sessions started
    episode,          \* history: the current or latest distraction episode
    pushed,           \* history: the verdicts pushed since the last reset
    probe,            \* the sample classified and the closure it met
    verdict,          \* <<>> or <<what the classifier returned>>
    attempt,          \* history: the form submissions counted, the last text
    alertLog          \* history: the assets queued and the assets played

\* The component: its state, its refs and the clock
component ==
    <<now, lessonStarted, trackingEnabled, currentState, remainingSeconds,
      focusResults, focusLevel, sessionSummary, sessionTimeline,
      visionStatus, visionState, visionFrame, backendConfig,
      distractorReason, cameraError, visionConfig, characterChoice,
      alertQueue, activeAlert, recentStates, socketRef, sockets,
      alertTimeout, alertQueued, sessionStart, distractedStart,
      distractedTotal, distractedCount, resync, countdown>>

\* The sample classified last, what the classifier returned and the form
\* submission recorded last
harness == <<probe, verdict, attempt>>

vars == <<component, samples, sessions, episode, pushed, harness, alertLog>>

\* The component's state and refs as one record
Cur ==
    [lessonStarted |-> lessonStarted, trackingEnabled |-> trackingEnabled,
     currentState |-> currentState, remainingSeconds |-> remainingSeconds,
     focusResults |-> focusResults, focusLevel |-> focusLevel,
     sessionSummary |-> sessionSummary, sessionTimeline |-> sessionTimeline,
     visionStatus |-> visionStatus, visionState |-> visionState,
     visionFrame |-> visionFrame, cameraError |-> cameraError,
     backendConfig |-> backendConfig, distractorReason |-> distractorReason,
     visionConfig |-> visionConfig, characterChoice |-> characterChoice,
     alertQueue |-> alertQueue, activeAlert |-> activeAlert,
     recentStates |-> recentStates, socketRef |-> socketRef,
     sockets |-> sockets, alertTimeout |-> alertTimeout,
     alertQueued |-> alertQueued, sessionStart |-> sessionStart,
     distractedStart |-> distractedStart, distractedTotal |-> distractedTotal,
     distractedCount |-> distractedCount, resync |-> resync,
     countdown |-> countdown]

(***************************************************************************)
(* Bounds and constants                                                    *)
(***************************************************************************)
\* The debounce delay of the alert timer, ms
DebounceMs == 4000

\* Engine behaviours: WebSocket objects created, clock steps, inbound
\* messages and sessions started
MaxSockets == 2

MaxTicks == 1

MaxSamples == 1

MaxSessions == 1

\* The clock step of the session behaviours: half a second, so that
\* durations on both sides of the rounding boundary occur
TickMs == SecondMs \div 2

\* The clock step of the alert behaviours: half the debounce delay, so that
\* the timer is re-armed in the middle of its wait
AlertTickMs == DebounceMs \div 2

\* Session behaviours: clock steps, inbound messages and sessions started
SessionTicks == 2

SessionSamples == 5

SessionRuns == 2

\* Alert behaviours: clock steps, inbound messages and sessions started
AlertTicks == 3

AlertSamples == 4

AlertRuns == 1

\* Smoother behaviours: inbound messages, those that arrive before the
\* session starts, and changes of verdict between consecutive messages
MaxPushes == 62

MaxStale == 1

MaxFlips == 1

\* Config behaviours: clock steps of half a resync period, sessions started
\* and config messages sent on a socket before the settings stop changing
ConfigTicks == 3

ConfigRuns == 1

MaxSent == 2

\* Echo behaviours: inbound messages
EchoSamples == 3

\* Link behaviours: clock steps of a second, inbound messages and sessions
\* started
LinkTicks == 2

LinkSamples == 3

LinkRuns == 1

\* Countdown behaviours: clock steps of a second, enough for the countdown
\* of a one-minute session to run out, and sessions started
CountdownTicks == 61

CountdownRuns == 1

\* Study-length behaviours: clock steps of half a second and sessions
\* started
StudyTicks == 8

StudyRuns == 2

StudyTries == 3

\* Lifecycle behaviours: clock steps of half a second, inbound messages,
\* sessions started and form submissions recorded
LifecycleTicks == 3

LifecycleSamples == 2

LifecycleRuns == 2

LifecycleTries == 3

\* Player behaviours: clock steps of the debounce delay, inbound messages
\* and sessions started
PlayerTicks == 3

PlayerSamples == 3

PlayerRuns == 3

\* Resend behaviours: clock steps of a resync period and inbound messages
ResendTicks == 2

ResendSamples == 3

(***************************************************************************)
(* Derived render values                                                   *)
(***************************************************************************)
\* const focusWarningActive = focusLevel < 0.7
focusWarningActive(s) == belowThreshold(s.focusLevel)

effectiveTalking(s) == effectiveIncludeTalking(s.backendConfig, s.visionConfig)

(***************************************************************************)
(* Effect: vision socket, deps [trackingEnabled]                           *)
(***************************************************************************)
\* WebSocket.close(): a socket that is connecting or open starts closing
closeSocket(sock) ==
    IF sock.readyState \in {"connecting", "open"}
    THEN [sock EXCEPT !.readyState = "closing"]
    ELSE sock

\* new WebSocket(...), with the render values its handlers close over and
\* the config messages sent on it so far
newSocket(s) ==
    [readyState |-> "connecting",
     visionConfig |-> s.visionConfig,
     includeTalking |-> effectiveTalking(s),
     sent |-> <<>>]

\* The cleanup closes the socket the previous run created (the latest one);
\* the body sets the status to idle or creates the next socket
socketEffect(prev, s) ==
    IF prev.trackingEnabled = s.trackingEnabled THEN s
    ELSE IF ~s.trackingEnabled
        THEN [s EXCEPT
                !.sockets = [i \in DOMAIN s.sockets |->
                    IF i = Len(s.sockets) THEN closeSocket(s.sockets[i])
                    ELSE s.sockets[i]],
                !.visionStatus = "idle"]
        ELSE [s EXCEPT
                !.sockets = Append(s.sockets, newSocket(s)),
                !.socketRef = Len(s.sockets) + 1]

(***************************************************************************)
(* Config messages: sendVisionConfig, the send effect and the resync       *)
(* interval, both with deps [visionConfig]                                 *)
(***************************************************************************)
\* The period of the resync interval, ms
ResyncMs == 2000

\* Fault: the client takes the config it sends for the backend's echo
sendVisionConfigAdopting(s, config) ==
    IF s.socketRef = 0 THEN s
    ELSE IF s.sockets[s.socketRef].readyState # "open" THEN s
    ELSE [s EXCEPT
            !.sockets[s.socketRef].sent = Append(@, config),
            !.backendConfig =
                <<[include_talking |-> {config.includeTalking}]>>]

\* The message goes to the socket socketRef names, if that socket is open;
\* lastConfigSentAt, which is only displayed, is left out
sendVisionConfig(s, config) ==
    IF s.socketRef = 0 THEN s
    ELSE IF s.sockets[s.socketRef].readyState # "open" THEN s
    ELSE [s EXCEPT !.sockets[s.socketRef].sent = Append(@, config)]

configEffect(prev, s) ==
    IF prev.visionConfig = s.visionConfig THEN s
    ELSE sendVisionConfig(s, s.visionConfig)

\* setInterval(() => sendVisionConfig(visionConfig), 2000)
armResync(s, t) == [due |-> t + ResyncMs, config |-> s.visionConfig]

\* The cleanup clears the interval and the body creates the next one
resyncEffect(prev, s, t) ==
    IF prev.visionConfig = s.visionConfig THEN s
    ELSE [s EXCEPT !.resync = armResync(s, t)]

(***************************************************************************)
(* Effect: camera preview, deps [previewEnabled, visionStatus], with       *)
(* previewEnabled = false                                                  *)
(***************************************************************************)
cameraEffect(prev, s) ==
    IF prev.visionStatus = s.visionStatus THEN s
    ELSE IF s.visionStatus = "connected"
    THEN [s EXCEPT !.cameraError =
            "Preview paused while vision backend is connected."]
    ELSE s

(***************************************************************************)
(* Effect: countdown, deps [lessonStarted, remainingSeconds]               *)
(***************************************************************************)
NoCountdown == [pending |-> FALSE, due |-> 0]

countdownDeps(s) == <<s.lessonStarted, s.remainingSeconds>>

\* The cleanup clears the interval; the body creates the next one while the
\* session runs and time remains
countdownBody(s, t) ==
    IF ~s.lessonStarted \/ s.remainingSeconds <= 0
    THEN [s EXCEPT !.countdown = NoCountdown]
    ELSE [s EXCEPT !.countdown = [pending |-> TRUE, due |-> t + SecondMs]]

countdownEffect(prev, s, t) ==
    IF countdownDeps(prev) = countdownDeps(s) THEN s ELSE countdownBody(s, t)

(***************************************************************************)
(* Effect: alert debounce                                                  *)
(***************************************************************************)
NoTimer ==
    [ref |-> FALSE, pending |-> FALSE, due |-> 0, cleanup |-> FALSE,
     fwa |-> FALSE, cand |-> "", choice |-> "", talk |-> FALSE]

debounceDeps(s) ==
    <<focusWarningActive(s), s.lessonStarted, s.distractorReason,
      s.visionState, s.characterChoice, effectiveTalking(s)>>

\* Fault: the timer is left armed where the code clears it
clearAlertTimeoutKept(timer) == timer

\* if (alertTimeoutRef.current) { clearTimeout(...); ... = null }
clearAlertTimeout(timer) ==
    IF timer.ref THEN [NoTimer EXCEPT !.cleanup = timer.cleanup] ELSE timer

\* Fault: the cleanup leaves the timer of the previous run pending
debounceCleanupSkipped(timer) == timer

\* The cleanup function returned by the run that armed the timer
debounceCleanup(timer) ==
    IF timer.cleanup
    THEN [clearAlertTimeout(timer) EXCEPT !.cleanup = FALSE]
    ELSE timer

\* Fault: a re-armed timer waits the whole delay again
remainingWhole(startTime, t) == DebounceMs

\* Math.max(4000 - elapsed, 0)
remaining(startTime, t) == Max(DebounceMs - (t - startTime), 0)

\* Fault: the wait is counted from the time the timer is armed
debounceStartNow(s, t) == t

\* distractedStartRef.current || Date.now()
debounceStart(s, t) ==
    IF s.distractedStart # {} THEN valueOf(s.distractedStart) ELSE t

\* setTimeout(callback, remaining) with the values the callback closes over
armTimer(s, t) ==
    [ref |-> TRUE, pending |-> TRUE,
     due |-> t + remaining(debounceStart(s, t), t),
     cleanup |-> TRUE,
     fwa |-> focusWarningActive(s),
     cand |-> IF s.distractorReason # "" THEN s.distractorReason
              ELSE s.visionState,
     choice |-> s.characterChoice,
     talk |-> effectiveTalking(s)]

\* The body, run on the timer the cleanup left
debounceBody(s, timer, t) ==
    IF ~s.lessonStarted THEN [s EXCEPT !.alertTimeout = timer]
    ELSE IF ~focusWarningActive(s)
        THEN [s EXCEPT !.alertTimeout = clearAlertTimeout(timer),
                       !.alertQueued = FALSE]
    ELSE IF s.alertQueued THEN [s EXCEPT !.alertTimeout = timer]
    ELSE [s EXCEPT !.alertTimeout = armTimer(s, t)]

debounceEffect(prev, s, t) ==
    IF debounceDeps(prev) = debounceDeps(s) THEN s
    ELSE debounceBody(s, debounceCleanup(s.alertTimeout), t)

(***************************************************************************)
(* Effect: alert dequeue, deps [activeAlert, alertQueue]                   *)
(***************************************************************************)
\* Fault: the asset queued last is played first
dequeueEffectNewestFirst(prev, s) ==
    IF prev.activeAlert = s.activeAlert /\ prev.alertQueue = s.alertQueue
    THEN s
    ELSE IF s.activeAlert # <<>> \/ s.alertQueue = <<>> THEN s
    ELSE [s EXCEPT !.activeAlert = s.alertQueue[Len(s.alertQueue)],
                   !.alertQueue = SubSeq(s.alertQueue, 1,
                                         Len(s.alertQueue) - 1)]

dequeueEffect(prev, s) ==
    IF prev.activeAlert = s.activeAlert /\ prev.alertQueue = s.alertQueue
    THEN s
    ELSE IF s.activeAlert # <<>> \/ s.alertQueue = <<>> THEN s
    ELSE [s EXCEPT !.activeAlert = Head(s.alertQueue),
                   !.alertQueue = Tail(s.alertQueue)]

(***************************************************************************)
(* Effect: session timeline, deps [focusWarningActive, lessonStarted,      *)
(* distractorReason]                                                       *)
(***************************************************************************)
timelineDeps(s) ==
    <<focusWarningActive(s), s.lessonStarted, s.distractorReason>>

\* Math.round((now - sessionStartRef.current) / 1000)
elapsedSecondsOf(s, t) == roundSeconds(t - valueOf(s.sessionStart))

\* Fault: the span that opens is not counted
openEpisodeUncounted(s, t) ==
    [s EXCEPT
        !.distractedStart = {t},
        !.sessionTimeline = Append(@,
            [elapsedSeconds |-> elapsedSecondsOf(s, t),
             state |-> "distracted",
             label |-> IF s.distractorReason # "" THEN s.distractorReason
                       ELSE "distracted"])]

\* Fault: the opening entry never carries the resolved label
openEpisodeUnlabelled(s, t) ==
    [s EXCEPT
        !.distractedStart = {t},
        !.distractedCount = @ + 1,
        !.sessionTimeline = Append(@,
            [elapsedSeconds |-> elapsedSecondsOf(s, t),
             state |-> "distracted",
             label |-> "distracted"])]

\* The focused -> distracted branch
openEpisode(s, t) ==
    [s EXCEPT
        !.distractedStart = {t},
        !.distractedCount = @ + 1,
        !.sessionTimeline = Append(@,
            [elapsedSeconds |-> elapsedSecondsOf(s, t),
             state |-> "distracted",
             label |-> IF s.distractorReason # "" THEN s.distractorReason
                       ELSE "distracted"])]

\* Fault: the closing entry replaces the entry that opened the span
closeEpisodeOverwriting(s, t) ==
    [s EXCEPT
        !.distractedTotal = @ + roundSeconds(t - valueOf(s.distractedStart)),
        !.distractedStart = {},
        !.sessionTimeline =
            Append(SubSeq(@, 1, Len(@) - 1),
                   [elapsedSeconds |-> elapsedSecondsOf(s, t),
                    state |-> "focused", label |-> "focused"])]

\* The distracted -> focused branch
closeEpisode(s, t) ==
    [s EXCEPT
        !.distractedTotal = @ + roundSeconds(t - valueOf(s.distractedStart)),
        !.distractedStart = {},
        !.sessionTimeline = Append(@,
            [elapsedSeconds |-> elapsedSecondsOf(s, t),
             state |-> "focused", label |-> "focused"])]

\* Fault: an episode is opened again while one is open
opensEpisodeAgain(s) == focusWarningActive(s)

\* focusWarningActive && !distractedStartRef.current
opensEpisode(s) == focusWarningActive(s) /\ s.distractedStart = {}

\* !focusWarningActive && distractedStartRef.current
closesEpisode(s) == ~focusWarningActive(s) /\ s.distractedStart # {}

\* Fault: the effect writes whenever a session has started once
timelineBodyAnytime(s, t) ==
    IF s.sessionStart = {} THEN s
    ELSE IF opensEpisode(s) THEN openEpisode(s, t)
    ELSE IF closesEpisode(s) THEN closeEpisode(s, t)
    ELSE s

timelineBody(s, t) ==
    IF ~s.lessonStarted \/ s.sessionStart = {} THEN s
    ELSE IF opensEpisode(s) THEN openEpisode(s, t)
    ELSE IF closesEpisode(s) THEN closeEpisode(s, t)
    ELSE s

timelineEffect(prev, s, t) ==
    IF timelineDeps(prev) = timelineDeps(s) THEN s ELSE timelineBody(s, t)

(***************************************************************************)
(* Session history (not program state): the current or latest maximal      *)
(* span of a running session with focusLevel < 0.7, and the totals of the  *)
(* session it belongs to                                                   *)
(***************************************************************************)
\* state: none, open, recovered (closed by focus recovery) or ended (open
\* when the session ended); start, end: the times of the span; arms, fires,
\* alerts: the timers armed, callbacks run and assets queued since it
\* started; resolved: a callback found a category with an asset;
\* completed, closedSeconds: the spans of the session closed by recovery
\* and the sum of their rounded durations; sessionEnd: when the session
\* ended
NoEpisode ==
    [state |-> "none", start |-> 0, end |-> 0, arms |-> 0, fires |-> 0,
     alerts |-> 0, resolved |-> FALSE, completed |-> 0, closedSeconds |-> 0,
     sessionEnd |-> 0]

inEpisode(s) == s.lessonStarted /\ focusWarningActive(s)

\* out: what the task's handler did: queued and fired, the number of assets
\* it appended to the alert queue and of debounce callbacks it ran;
\* resolved, whether the callback found a category with an asset
Quiet == [queued |-> 0, fired |-> 0, resolved |-> FALSE]

\* The debounce effect ran and left a pending timer
armed(prev, s) ==
    IF debounceDeps(prev) # debounceDeps(s) /\ s.alertTimeout.pending
    THEN 1 ELSE 0

nextEpisode(prev, s, t, out) ==
    LET e0 == IF ~prev.lessonStarted /\ s.lessonStarted THEN NoEpisode
              ELSE IF prev.lessonStarted /\ ~s.lessonStarted
              THEN [episode EXCEPT !.sessionEnd = t]
              ELSE episode
        e1 == [e0 EXCEPT !.alerts = @ + out.queued, !.fires = @ + out.fired,
                         !.arms = @ + armed(prev, s),
                         !.resolved = @ \/ out.resolved]
    IN  IF ~inEpisode(prev) /\ inEpisode(s)
        THEN [e1 EXCEPT !.state = "open", !.start = t, !.end = t,
                        !.alerts = out.queued, !.fires = out.fired,
                        !.arms = armed(prev, s),
                        !.resolved = out.resolved]
        ELSE IF inEpisode(prev) /\ ~inEpisode(s)
        THEN [e1 EXCEPT
                !.state = IF s.lessonStarted THEN "recovered" ELSE "ended",
                !.end = t,
                !.completed = IF s.lessonStarted THEN @ + 1 ELSE @,
                !.closedSeconds = IF s.lessonStarted
                                  THEN @ + roundSeconds(t - e1.start)
                                  ELSE @]
        ELSE e1

\* The assets queued and the assets played so far: queued grows by what
\* the handler appended to alertQueue, played by the asset the dequeue
\* effect made the active one (before and after are the states around it)
NoAlerts == [queued |-> <<>>, played |-> <<>>]

nextAlertLog(prev, handled, before, after) ==
    [queued |-> alertLog.queued \o
                    SubSeq(handled.alertQueue, Len(prev.alertQueue) + 1,
                           Len(handled.alertQueue)),
     played |-> IF after.activeAlert # before.activeAlert
                THEN Append(alertLog.played, after.activeAlert)
                ELSE alertLog.played]

(***************************************************************************)
(* Render and passive effects after a handler                              *)
(***************************************************************************)
\* The commit of one task: prev is the state of the last commit, handled
\* the state this task's handler produced; the effects run in the order of
\* their declaration
Commit(prev, handled, out) ==
    \E c1 \in {cameraEffect(prev, handled)} :
    \E s1 \in {socketEffect(prev, c1)} :
    \E c2 \in {configEffect(prev, s1)} :
    \E c3 \in {resyncEffect(prev, c2, now)} :
    \E s2 \in {debounceEffect(prev, c3, now)} :
    \E s3 \in {dequeueEffect(prev, s2)} :
    \E s4 \in {timelineEffect(prev, s3, now)} :
    \E f \in {countdownEffect(prev, s4, now)} :
        /\ lessonStarted' = f.lessonStarted
        /\ trackingEnabled' = f.trackingEnabled
        /\ currentState' = f.currentState
        /\ remainingSeconds' = f.remainingSeconds
        /\ focusResults' = f.focusResults
        /\ focusLevel' = f.focusLevel
        /\ sessionSummary' = f.sessionSummary
        /\ sessionTimeline' = f.sessionTimeline
        /\ visionStatus' = f.visionStatus
        /\ visionState' = f.visionState
        /\ visionFrame' = f.visionFrame
        /\ cameraError' = f.cameraError
        /\ backendConfig' = f.backendConfig
        /\ distractorReason' = f.distractorReason
        /\ visionConfig' = f.visionConfig
        /\ characterChoice' = f.characterChoice
        /\ alertQueue' = f.alertQueue
        /\ activeAlert' = f.activeAlert
        /\ recentStates' = f.recentStates
        /\ socketRef' = f.socketRef
        /\ sockets' = f.sockets
        /\ alertTimeout' = f.alertTimeout
        /\ alertQueued' = f.alertQueued
        /\ sessionStart' = f.sessionStart
        /\ distractedStart' = f.distractedStart
        /\ distractedTotal' = f.distractedTotal
        /\ distractedCount' = f.distractedCount
        /\ resync' = f.resync
        /\ countdown' = f.countdown
        /\ episode' = nextEpisode(prev, f, now, out)
        /\ alertLog' = nextAlertLog(prev, handled, s2, s3)
        /\ now' = now

\* A task whose handler maps the committed state to handler(state)
Task(handler(_)) ==
    /\ \E prev \in {Cur} : \E handled \in {handler(prev)} :
        Commit(prev, handled, Quiet)
    /\ UNCHANGED harness

(***************************************************************************)
(* Inputs                                                                  *)
(***************************************************************************)
NoObjects == [kind |-> "absent", items |-> <<>>]

Sample(state, h, v, ear, objects, config) ==
    [malformed |-> FALSE, state |-> state, h_ratio |-> h, v_ratio |-> v,
     left_ear |-> ear, objects |-> objects, config |-> config,
     preview_jpeg |-> ""]

\* A payload JSON.parse rejects
Malformed ==
    [malformed |-> TRUE, state |-> "", h_ratio |-> {}, v_ratio |-> {},
     left_ear |-> {}, objects |-> NoObjects, config |-> <<>>,
     preview_jpeg |-> ""]

AtScreen == Sample("at screen", {50}, {50}, {35}, NoObjects, <<>>)

LookingLeft == Sample("Looking Left", {20}, {50}, {35}, NoObjects, <<>>)

Away == Sample("Away", {20}, {50}, {35}, NoObjects, <<>>)

Talking == Sample("Talking", {50}, {50}, {35}, NoObjects, <<>>)

\* A message with no state label that echoes a config with talking disabled
EchoTalkingOff ==
    Sample("", {50}, {50}, {}, NoObjects, <<[include_talking |-> {FALSE}]>>)

\* A sample that carries a preview frame
Framed == [LookingLeft EXCEPT !.preview_jpeg = "/9j/4AAQ"]

\* A sample whose objects field is not an array
ObjectsNotArray ==
    Sample("at screen", {50}, {50}, {35},
           [kind |-> "other", items |-> <<>>], <<>>)

\* The inbound messages of the session behaviours
SessionPayloads == {AtScreen, LookingLeft}

\* The inbound messages of the alert behaviours
AlertPayloads == {AtScreen, LookingLeft, Away, EchoTalkingOff}

\* The inbound messages of the engine's behaviours
Payloads == AlertPayloads \cup {Talking, Malformed}

\* The texts of the study-length input
LessonInputs == {"", " ", "abc", "1e999", "0", "-5", "1"}

\* Study lengths of a fraction of a minute
StudyLengths == {"0.001", "0.025", "0.05"}

\* Number(text) in thousandths, if Number.isFinite accepts it: {} for NaN
\* and Infinity
numberOf(text) ==
    CASE text = "" -> {0}
      [] text = " " -> {0}
      [] text = "abc" -> {}
      [] text = "1e999" -> {}
      [] text = "0" -> {0}
      [] text = "-5" -> {0 - 5000}
      [] text = "1" -> {1000}
      [] text = "0.001" -> {1}
      [] text = "0.025" -> {25}
      [] text = "0.05" -> {50}

\* Fault: the seconds are truncated
roundMinutesDown(minutes) == (minutes * 60) \div 1000

\* Math.round(minutes * 60), minutes in thousandths
roundMinutes(minutes) == roundSeconds(minutes * 60)

\* The edits of the detection settings form
ConfigEdits ==
    {<<"includeTalking", TRUE>>, <<"includeTalking", FALSE>>,
     <<"hMin", 35>>, <<"hMin", 10>>}

(***************************************************************************)
(* Initial state: after the first render and its effects                   *)
(***************************************************************************)
NoProbe == [sample |-> Malformed, config |-> defaultVisionConfig,
            includeTalking |-> TRUE]

NoAttempt == [count |-> 0, text |-> ""]

InitApp ==
    /\ now = 0
    /\ lessonStarted = FALSE
    /\ trackingEnabled = TRUE
    /\ currentState = "focused"
    /\ remainingSeconds = 0
    /\ focusResults = <<>>
    /\ focusLevel = levelOne
    /\ sessionSummary = <<>>
    /\ sessionTimeline = <<>>
    /\ visionStatus = "idle"
    /\ visionState = ""
    /\ visionFrame = ""
    /\ cameraError = ""
    /\ backendConfig = <<>>
    /\ distractorReason = ""
    /\ visionConfig = defaultVisionConfig
    /\ characterChoice = "cop"
    /\ alertQueue = <<>>
    /\ activeAlert = <<>>
    /\ recentStates = <<>>
    /\ socketRef = 1
    /\ sockets = <<[readyState |-> "connecting",
                    visionConfig |-> defaultVisionConfig,
                    includeTalking |-> TRUE,
                    sent |-> <<>>]>>
    /\ alertTimeout = NoTimer
    /\ alertQueued = FALSE
    /\ sessionStart = {}
    /\ distractedStart = {}
    /\ distractedTotal = 0
    /\ distractedCount = 0
    /\ resync = [due |-> ResyncMs, config |-> defaultVisionConfig]
    /\ countdown = NoCountdown
    /\ samples = 0
    /\ sessions = 0
    /\ episode = NoEpisode

Init ==
    /\ InitApp
    /\ probe = NoProbe
    /\ verdict = <<>>
    /\ attempt = NoAttempt
    /\ alertLog = NoAlerts
    /\ pushed = <<>>

(***************************************************************************)
(* Session lifecycle                                                       *)
(***************************************************************************)
\* Fault: the distracted seconds of the session before are kept
startedLessonTotalKept(s, minutes, t) ==
    [s EXCEPT
        !.remainingSeconds = roundMinutes(minutes),
        !.sessionSummary = <<>>,
        !.sessionTimeline = <<>>,
        !.focusResults = <<>>,
        !.focusLevel = levelOne,
        !.sessionStart = {t},
        !.distractedStart = {},
        !.distractedCount = 0,
        !.lessonStarted = TRUE]

\* The state a valid submission sets
startedLesson(s, minutes, t) ==
    [s EXCEPT
        !.remainingSeconds = roundMinutes(minutes),
        !.sessionSummary = <<>>,
        !.sessionTimeline = <<>>,
        !.focusResults = <<>>,
        !.focusLevel = levelOne,
        !.sessionStart = {t},
        !.distractedStart = {},
        !.distractedTotal = 0,
        !.distractedCount = 0,
        !.lessonStarted = TRUE]

\* Fault: a study length of zero is accepted
startLessonZeroAccepted(s, lessonMinutes, t) ==
    IF trim(Chars(lessonMinutes)) = <<>> THEN s
    ELSE IF numberOf(lessonMinutes) = {} THEN s
    ELSE IF valueOf(numberOf(lessonMinutes)) < 0 THEN s
    ELSE startedLesson(s, valueOf(numberOf(lessonMinutes)), t)

startLesson(s, lessonMinutes, t) ==
    IF trim(Chars(lessonMinutes)) = <<>> THEN s
    ELSE IF numberOf(lessonMinutes) = {} THEN s
    ELSE IF valueOf(numberOf(lessonMinutes)) <= 0 THEN s
    ELSE startedLesson(s, valueOf(numberOf(lessonMinutes)), t)

\* A submission of the form, which is rendered only while no session runs,
\* while fewer than limit sessions were started
Submit(limit) ==
    /\ ~lessonStarted
    /\ sessions < limit
    /\ \E lessonMinutes \in LessonInputs :
        Task(LAMBDA s : startLesson(s, lessonMinutes, now))
    /\ sessions' = IF lessonStarted' THEN sessions + 1 ELSE sessions
    /\ pushed' = IF lessonStarted' THEN <<>> ELSE pushed
    /\ UNCHANGED samples

\* The same task, with the text submitted recorded in attempt, while fewer
\* than tries submissions were recorded
AttemptOf(texts, limit, tries) ==
    /\ ~lessonStarted
    /\ sessions < limit
    /\ attempt.count < tries
    /\ \E lessonMinutes \in texts :
        /\ \E prev \in {Cur} :
           \E handled \in {startLesson(prev, lessonMinutes, now)} :
                Commit(prev, handled, Quiet)
        /\ attempt' = [count |-> attempt.count + 1, text |-> lessonMinutes]
    /\ sessions' = IF lessonStarted' THEN sessions + 1 ELSE sessions
    /\ pushed' = IF lessonStarted' THEN <<>> ELSE pushed
    /\ UNCHANGED <<samples, probe, verdict>>

Attempt(limit, tries) == AttemptOf(LessonInputs, limit, tries)

\* Fault: the session length is not clamped to one second
totalSecondsOfUnclamped(endTime, start) == roundSeconds(endTime - start)

\* Math.max(1, Math.round((endTime - sessionStart) / 1000))
totalSecondsOf(endTime, start) == Max(1, roundSeconds(endTime - start))

\* Math.max(totalSeconds - distractedSeconds, 0)
focusedSecondsOf(totalSeconds, distractedSeconds) ==
    Max(totalSeconds - distractedSeconds, 0)

\* The summary endLesson sets
summaryOf(totalSeconds, distractedSeconds, alerts) ==
    [totalSeconds |-> totalSeconds,
     distractedSeconds |-> distractedSeconds,
     focusedSeconds |-> focusedSecondsOf(totalSeconds, distractedSeconds),
     alerts |-> alerts]

\* Fault: the episode that is open is left out of the summary
closeOpenEpisodeSkipped(s, endTime) == s

\* The refs after endLesson has closed the episode that is open
closeOpenEpisode(s, endTime) ==
    IF s.distractedStart # {}
    THEN [s EXCEPT
            !.distractedTotal =
                @ + roundSeconds(endTime - valueOf(s.distractedStart)),
            !.distractedStart = {}]
    ELSE s

\* The summary is computed from the refs as closeOpenEpisode left them
summarize(s, closed, endTime) ==
    [closed EXCEPT
        !.sessionSummary =
            <<summaryOf(totalSecondsOf(endTime, valueOf(s.sessionStart)),
                        closed.distractedTotal, closed.distractedCount)>>,
        !.lessonStarted = FALSE]

endLesson(s, endTime) ==
    IF s.sessionStart # {}
    THEN summarize(s, closeOpenEpisode(s, endTime), endTime)
    ELSE [s EXCEPT !.lessonStarted = FALSE]

\* The End session button is rendered only while a session runs
EndLesson ==
    /\ lessonStarted
    /\ Task(LAMBDA s : endLesson(s, now))
    /\ UNCHANGED <<samples, sessions, pushed>>

\* endLesson called while no session runs: no element of the page does it,
\* the function itself allows for it (its test of sessionStartRef)
EndIdle ==
    /\ ~lessonStarted
    /\ Task(LAMBDA s : endLesson(s, now))
    /\ UNCHANGED <<samples, sessions, pushed>>

simulateState(s) ==
    [s EXCEPT !.currentState =
        IF @ = "focused" THEN "distracted" ELSE "focused"]

\* The header buttons are rendered only while a session runs
SimulateState ==
    /\ lessonStarted
    /\ Task(simulateState)
    /\ UNCHANGED <<samples, sessions, pushed>>

toggleTracking(s) == [s EXCEPT !.trackingEnabled = ~@]

ToggleTracking ==
    /\ lessonStarted
    /\ trackingEnabled \/ Len(sockets) < MaxSockets
    /\ Task(toggleTracking)
    /\ UNCHANGED <<samples, sessions, pushed>>

\* The character select and the settings form are rendered only while no
\* session runs
SetCharacter ==
    /\ ~lessonStarted
    /\ \E c \in Characters \ {characterChoice} :
        Task(LAMBDA s : [s EXCEPT !.characterChoice = c])
    /\ UNCHANGED <<samples, sessions, pushed>>

EditConfig ==
    /\ ~lessonStarted
    /\ \E e \in ConfigEdits :
        /\ visionConfig[e[1]] # e[2]
        /\ Task(LAMBDA s : [s EXCEPT !.visionConfig[e[1]] = e[2]])
    /\ UNCHANGED <<samples, sessions, pushed>>

(***************************************************************************)
(* Vision socket events                                                    *)
(***************************************************************************)
\* sendVisionConfig is given the config the handler closed over
onopen(s, i) ==
    sendVisionConfig([s EXCEPT !.sockets[i].readyState = "open",
                               !.visionStatus = "connected"],
                     s.sockets[i].visionConfig)

SocketOpen ==
    /\ \E i \in DOMAIN sockets :
        /\ sockets[i].readyState = "connecting"
        /\ Task(LAMBDA s : onopen(s, i))
    /\ UNCHANGED <<samples, sessions, pushed>>

onerror(s, i) ==
    [s EXCEPT !.sockets[i].readyState = "closing",
              !.visionStatus = "error",
              !.cameraError = "Vision backend connection error."]

\* Fault: the close handler leaves the last preview frame in place
oncloseFrameKept(s, i) ==
    [s EXCEPT !.sockets[i].readyState = "closed",
              !.visionStatus = "disconnected",
              !.visionState = "",
              !.cameraError = "Vision backend disconnected.",
              !.socketRef = 0]

onclose(s, i) ==
    [s EXCEPT !.sockets[i].readyState = "closed",
              !.visionStatus = "disconnected",
              !.visionFrame = "",
              !.visionState = "",
              !.cameraError = "Vision backend disconnected.",
              !.socketRef = 0]

\* A connection that fails: the task that closes it fires the error event
\* and then the close event
SocketError ==
    /\ \E i \in DOMAIN sockets :
        /\ sockets[i].readyState \in {"connecting", "open"}
        /\ Task(LAMBDA s : onclose(onerror(s, i), i))
    /\ UNCHANGED <<samples, sessions, pushed>>

SocketClose ==
    /\ \E i \in DOMAIN sockets :
        /\ sockets[i].readyState \in {"connecting", "open", "closing"}
        /\ Task(LAMBDA s : onclose(s, i))
    /\ UNCHANGED <<samples, sessions, pushed>>

\* setVisionState: a talking label is shown as Focused when talking is
\* excluded
shownState(payload, includeTalking) ==
    IF ~includeTalking /\ stateIncludes(payload.state, "talking")
    THEN "Focused"
    ELSE payload.state

\* [...recentStatesRef.current, payload.state].slice(-60)
nextStates(s, payload) ==
    sliceLast(Append(s.recentStates, payload.state), Capacity)

\* The statements of onmessage before the classification
noteLabels(s, payload, includeTalking) ==
    [s EXCEPT
        !.visionState = shownState(payload, includeTalking),
        !.backendConfig = IF payload.config # <<>> THEN payload.config ELSE @,
        !.visionFrame = IF payload.preview_jpeg # "" THEN payload.preview_jpeg
                        ELSE @,
        !.cameraError = IF payload.state = "camera-error"
                        THEN "Vision backend cannot read the camera."
                        ELSE "",
        !.recentStates = IF payload.state # "" THEN nextStates(s, payload)
                         ELSE @,
        !.distractorReason =
            IF payload.state # ""
            THEN computeMostCommonDistractor(nextStates(s, payload),
                                             includeTalking)
            ELSE @]

\* pushFocusResult: the updater's window, level and state
pushFocusResult(s, isFocused) ==
    [s EXCEPT
        !.focusResults = nextWindow(@, isFocused),
        !.focusLevel = averageOf(nextWindow(s.focusResults, isFocused)),
        !.currentState =
            stateOfLevel(averageOf(nextWindow(s.focusResults, isFocused)))]

\* evaluateFocus and pushFocusResult, unless evaluateFocus threw
classifyAndPush(s, result) ==
    IF result.threw THEN s ELSE pushFocusResult(s, result.focused)

\* Fault: a payload that does not parse is processed as an empty sample
onmessageUnguarded(s, payload, config, includeTalking) ==
    classifyAndPush(noteLabels(s, payload, includeTalking),
                    evaluateFocus(payload, config, includeTalking))

\* socket.onmessage of the socket whose closure holds config and
\* includeTalking; a payload that does not parse changes nothing
onmessage(s, payload, config, includeTalking) ==
    IF payload.malformed THEN s
    ELSE classifyAndPush(noteLabels(s, payload, includeTalking),
                         evaluateFocus(payload, config, includeTalking))

\* The verdicts pushed since the reset, after onmessage with payload
nextPushed(payload, config, includeTalking) ==
    IF payload.malformed THEN pushed
    ELSE IF evaluateFocus(payload, config, includeTalking).threw THEN pushed
    ELSE Append(pushed,
                evaluateFocus(payload, config, includeTalking).focused)

\* A message of the set payloads, while fewer than limit were delivered
Deliver(payloads, limit) ==
    /\ samples < limit
    /\ \E i \in DOMAIN sockets, payload \in payloads :
        /\ sockets[i].readyState = "open"
        /\ Task(LAMBDA s : onmessage(s, payload, sockets[i].visionConfig,
                                     sockets[i].includeTalking))
        /\ pushed' = nextPushed(payload, sockets[i].visionConfig,
                                sockets[i].includeTalking)
    /\ samples' = samples + 1
    /\ UNCHANGED sessions

\* The same task, with the message and the closure values it was classified
\* with recorded in probe, and what evaluateFocus returned in verdict
Receive(payloads, limit) ==
    /\ samples < limit
    /\ \E i \in DOMAIN sockets, payload \in payloads :
        /\ sockets[i].readyState = "open"
        /\ \E prev \in {Cur} :
           \E handled \in {onmessage(prev, payload, sockets[i].visionConfig,
                                     sockets[i].includeTalking)} :
                Commit(prev, handled, Quiet)
        /\ pushed' = nextPushed(payload, sockets[i].visionConfig,
                                sockets[i].includeTalking)
        /\ probe' = [sample |-> payload,
                     config |-> sockets[i].visionConfig,
                     includeTalking |-> sockets[i].includeTalking]
        /\ verdict' = IF payload.malformed THEN <<>>
                      ELSE <<evaluateFocus(payload, sockets[i].visionConfig,
                                           sockets[i].includeTalking)>>
    /\ samples' = samples + 1
    /\ UNCHANGED <<sessions, attempt>>

(***************************************************************************)
(* Interval callbacks                                                      *)
(***************************************************************************)
\* The resync callback sends the config it closed over; the interval
\* repeats
resyncTick(s) ==
    [sendVisionConfig(s, s.resync.config) EXCEPT
        !.resync.due = @ + ResyncMs]

ResyncTick ==
    /\ now >= resync.due
    /\ Task(resyncTick)
    /\ UNCHANGED <<samples, sessions, pushed>>

\* setRemainingSeconds((prev) => prev <= 1 ? 0 : prev - 1), clearing the
\* interval at the last second; the interval repeats otherwise
countdownTick(s) ==
    [s EXCEPT
        !.remainingSeconds = IF @ <= 1 THEN 0 ELSE @ - 1,
        !.countdown = IF s.remainingSeconds <= 1 THEN NoCountdown
                      ELSE [@ EXCEPT !.due = @ + SecondMs]]

CountdownTick ==
    /\ countdown.pending
    /\ now >= countdown.due
    /\ Task(countdownTick)
    /\ UNCHANGED <<samples, sessions, pushed>>

(***************************************************************************)
(* Alert timer and player                                                  *)
(***************************************************************************)
\* The timer once its callback has run: the ref keeps the stale id
firedTimer(timer) == [NoTimer EXCEPT !.ref = TRUE, !.cleanup = timer.cleanup]

\* The asset the callback resolves from the values it closed over
resolvedAsset(timer) ==
    assetFor(timer.choice, alertKeyForState(timer.cand, timer.talk))

\* if (!focusWarningActive || alertQueuedRef.current) return
callbackReturnsEarly(timer, queued) == ~timer.fwa \/ queued

\* Fault: the callback queues the asset without marking the episode
timerCallbackUnmarked(s) ==
    IF callbackReturnsEarly(s.alertTimeout, s.alertQueued)
    THEN [s EXCEPT !.alertTimeout = firedTimer(@)]
    ELSE IF resolvedAsset(s.alertTimeout) = <<>>
    THEN [s EXCEPT !.alertTimeout = firedTimer(@)]
    ELSE [s EXCEPT !.alertTimeout = firedTimer(@),
                   !.alertQueue = Append(@, resolvedAsset(s.alertTimeout))]

\* The setTimeout callback
timerCallback(s) ==
    IF callbackReturnsEarly(s.alertTimeout, s.alertQueued)
    THEN [s EXCEPT !.alertTimeout = firedTimer(@)]
    ELSE IF resolvedAsset(s.alertTimeout) = <<>>
    THEN [s EXCEPT !.alertTimeout = firedTimer(@)]
    ELSE [s EXCEPT !.alertTimeout = firedTimer(@),
                   !.alertQueued = TRUE,
                   !.alertQueue = Append(@, resolvedAsset(s.alertTimeout))]

TimerFire ==
    /\ alertTimeout.pending
    /\ now >= alertTimeout.due
    /\ \E prev \in {Cur} : \E handled \in {timerCallback(prev)} :
        Commit(prev, handled,
               [queued |-> Len(handled.alertQueue) - Len(prev.alertQueue),
                fired |-> 1,
                resolved |-> resolvedAsset(prev.alertTimeout) # <<>>])
    /\ UNCHANGED <<samples, sessions, pushed, harness>>

\* onEnded of the alert video, which is rendered while a session runs
AlertEnded ==
    /\ lessonStarted
    /\ activeAlert # <<>>
    /\ Task(LAMBDA s : [s EXCEPT !.activeAlert = <<>>])
    /\ UNCHANGED <<samples, sessions, pushed>>

(***************************************************************************)
(* Time                                                                    *)
(***************************************************************************)
\* The clock moves by step, or up to the due time of the pending timer,
\* while it is before horizon
Clock(step, horizon) ==
    /\ now < horizon
    /\ ~(alertTimeout.pending /\ alertTimeout.due <= now)
    /\ now' = IF alertTimeout.pending
              THEN Min(now + step, alertTimeout.due)
              ELSE now + step
    /\ UNCHANGED <<lessonStarted, trackingEnabled, currentState,
                   remainingSeconds, focusResults, focusLevel, sessionSummary,
                   sessionTimeline, visionStatus, visionState, backendConfig,
                   distractorReason, visionConfig, characterChoice,
                   alertQueue, activeAlert, recentStates, socketRef, sockets,
                   alertTimeout, alertQueued, sessionStart, distractedStart,
                   distractedTotal, distractedCount, visionFrame, cameraError,
                   resync, countdown, samples, sessions, episode, pushed,
                   harness, alertLog>>

\* The due times of the timers and intervals that are pending
dues ==
    {resync.due}
    \cup (IF alertTimeout.pending THEN {alertTimeout.due} ELSE {})
    \cup (IF countdown.pending THEN {countdown.due} ELSE {})

\* The clock moves by step, or up to the earliest due time, while it is
\* before horizon and no callback is due
Pace(step, horizon) ==
    /\ now < horizon
    /\ \A due \in dues : now < due
    /\ now' = Min(now + step, CHOOSE due \in dues : \A d \in dues : due <= d)
    /\ UNCHANGED <<lessonStarted, trackingEnabled, currentState,
                   remainingSeconds, focusResults, focusLevel, sessionSummary,
                   sessionTimeline, visionStatus, visionState, backendConfig,
                   distractorReason, visionConfig, characterChoice,
                   alertQueue, activeAlert, recentStates, socketRef, sockets,
                   alertTimeout, alertQueued, sessionStart, distractedStart,
                   distractedTotal, distractedCount, visionFrame, cameraError,
                   resync, countdown, samples, sessions, episode, pushed,
                   harness, alertLog>>

(***************************************************************************)
(* Specifications                                                          *)
(***************************************************************************)
\* The engine: every task, within small bounds
OnMessage == Deliver(Payloads, MaxSamples)

\* The engine's clock steps by the debounce delay
Advance == Clock(DebounceMs, MaxTicks * DebounceMs)

StartLesson == Submit(MaxSessions)

\* An edit of the settings while fewer than MaxSent config messages were
\* sent on each socket
EditSettings ==
    /\ \A i \in DOMAIN sockets : Len(sockets[i].sent) < MaxSent
    /\ EditConfig

Next ==
    \/ StartLesson
    \/ EndLesson
    \/ SimulateState
    \/ ToggleTracking
    \/ SetCharacter
    \/ EditSettings
    \/ SocketOpen
    \/ SocketError
    \/ SocketClose
    \/ OnMessage
    \/ TimerFire
    \/ AlertEnded
    \/ Advance

Spec == Init /\ [][Next]_vars

\* The session behaviours: lifecycle and samples on a fine clock, for the
\* timeline, the accumulators and the summary
OnSessionMessage == Deliver(SessionPayloads, SessionSamples)

AdvanceSession == Clock(TickMs, SessionTicks * TickMs)

StartSession == Submit(SessionRuns)

NextSession ==
    \/ StartSession
    \/ EndLesson
    \/ SimulateState
    \/ SocketOpen
    \/ OnSessionMessage
    \/ AdvanceSession

SpecSession == Init /\ [][NextSession]_vars

\* The alert behaviours: labels, config echoes, the debounce timer and the
\* player, on a coarse clock that reaches past the debounce delay
OnAlertMessage == Deliver(AlertPayloads, AlertSamples)

AdvanceAlert == Clock(AlertTickMs, AlertTicks * AlertTickMs)

StartAlertSession == Submit(AlertRuns)

NextAlert ==
    \/ StartAlertSession
    \/ EndLesson
    \/ SetCharacter
    \/ SocketOpen
    \/ OnAlertMessage
    \/ TimerFire
    \/ AlertEnded
    \/ AdvanceAlert

SpecAlert == Init /\ [][NextAlert]_vars


\* The smoother behaviours: long runs of samples whose verdict seldom
\* changes, before and after the reset of a session start
flips(verdicts) ==
    Cardinality({i \in 1..(Len(verdicts) - 1) : verdicts[i] # verdicts[i + 1]})

WindowPayloads ==
    {p \in SessionPayloads :
        /\ lessonStarted \/ samples < MaxStale
        /\ flips(nextPushed(p, defaultVisionConfig, TRUE)) <= MaxFlips}

OnWindowMessage == Deliver(WindowPayloads, MaxPushes)

StartWindowSession == Submit(1)

NextWindow ==
    \/ StartWindowSession
    \/ SocketOpen
    \/ OnWindowMessage

SpecWindow == Init /\ [][NextWindow]_vars

\* The classifier alone: one sample, thresholds and talking flag, classified
ProbeObjects ==
    {NoObjects,
     [kind |-> "array", items |-> <<>>],
     [kind |-> "array", items |-> <<"cup">>],
     [kind |-> "array", items |-> <<"Cell Phone">>],
     [kind |-> "array", items |-> <<"cup", "book">>]}

ProbeStates ==
    {"", "at screen", "Focused", " focused ", "Using Phone", "book",
     "Talking", "No Face", "Looking Left"}

ProbeEars == {{}, {29}, {30}}

ProbeRatios == {{}, {34}, {35}, {65}, {66}}

Probes ==
    [sample : {Sample(state, h, v, ear, objects, <<>>) :
                 state \in ProbeStates, h \in ProbeRatios,
                 v \in {{}, {50}, {61}}, ear \in ProbeEars,
                 objects \in ProbeObjects},
     config : {defaultVisionConfig},
     includeTalking : BOOLEAN]

InitClassify ==
    /\ InitApp
    /\ pushed = <<>>
    /\ probe \in Probes
    /\ verdict = <<>>
    /\ attempt = NoAttempt
    /\ alertLog = NoAlerts

Classify ==
    /\ verdict = <<>>
    /\ verdict' = <<evaluateFocus(probe.sample, probe.config,
                                  probe.includeTalking)>>
    /\ UNCHANGED <<component, samples, sessions, episode, pushed, probe,
                   attempt, alertLog>>

SpecClassify == InitClassify /\ [][Classify]_vars

\* The echo behaviours: edits of the settings, config echoes and talking
\* samples on the first socket
EchoTalkingOn ==
    Sample("", {50}, {50}, {}, NoObjects, <<[include_talking |-> {TRUE}]>>)

EchoPayloads == {Talking, EchoTalkingOff, EchoTalkingOn}

OnEchoMessage == Receive(EchoPayloads, EchoSamples)

NextEcho ==
    \/ EditSettings
    \/ SocketOpen
    \/ OnEchoMessage

SpecEcho == Init /\ [][NextEcho]_vars

\* The config behaviours: edits of the settings, the sockets' lives and the
\* resync interval, on a clock of half-periods
AdvanceConfig == Pace(ResyncMs \div 2, ConfigTicks * (ResyncMs \div 2))

StartConfigSession == Submit(ConfigRuns)

NextConfig ==
    \/ StartConfigSession
    \/ EndLesson
    \/ ToggleTracking
    \/ EditSettings
    \/ SocketOpen
    \/ SocketClose
    \/ ResyncTick
    \/ CountdownTick
    \/ AdvanceConfig

SpecConfig == Init /\ [][NextConfig]_vars

\* The link behaviours: a session on a socket that receives well-formed,
\* undecodable and ill-typed messages and then closes or fails
LinkPayloads == {AtScreen, LookingLeft, Framed, Malformed, ObjectsNotArray}

OnLinkMessage == Receive(LinkPayloads, LinkSamples)

AdvanceLink == Pace(SecondMs, LinkTicks * SecondMs)

StartLinkSession == Submit(LinkRuns)

NextLink ==
    \/ StartLinkSession
    \/ EndLesson
    \/ SocketOpen
    \/ SocketError
    \/ SocketClose
    \/ OnLinkMessage
    \/ ResyncTick
    \/ CountdownTick
    \/ AdvanceLink

SpecLink == Init /\ [][NextLink]_vars

\* The countdown behaviours: a session whose countdown runs. The browser
\* runs a timer callback once it is due and time does not stop, so the
\* interval callbacks and the clock are weakly fair; the End session button
\* may never be clicked
AdvanceCountdown == Pace(SecondMs, CountdownTicks * SecondMs)

StartCountdownSession == Submit(CountdownRuns)

NextCountdown ==
    \/ StartCountdownSession
    \/ EndLesson
    \/ CountdownTick
    \/ ResyncTick
    \/ AdvanceCountdown

SpecCountdown ==
    /\ Init
    /\ [][NextCountdown]_vars
    /\ WF_vars(CountdownTick)
    /\ WF_vars(ResyncTick)
    /\ WF_vars(AdvanceCountdown)

\* The study-length behaviours: sessions of a few seconds, started with
\* study lengths that are fractions of a minute, whose countdown runs out
AdvanceStudy == Pace(SecondMs \div 2, StudyTicks * (SecondMs \div 2))

StartStudySession == AttemptOf(StudyLengths, StudyRuns, StudyTries)

NextStudy ==
    \/ StartStudySession
    \/ EndLesson
    \/ CountdownTick
    \/ ResyncTick
    \/ AdvanceStudy

SpecStudy == Init /\ [][NextStudy]_vars

\* The lifecycle behaviours: submissions of the form, valid or not, and
\* endLesson with and without a running session, around sessions that
\* receive samples
OnLifecycleMessage == Deliver(SessionPayloads, LifecycleSamples)

AdvanceLifecycle == Clock(TickMs, LifecycleTicks * TickMs)

StartLifecycleSession == Attempt(LifecycleRuns, LifecycleTries)

NextLifecycle ==
    \/ StartLifecycleSession
    \/ EndLesson
    \/ EndIdle
    \/ SocketOpen
    \/ OnLifecycleMessage
    \/ AdvanceLifecycle

SpecLifecycle == Init /\ [][NextLifecycle]_vars

\* The player behaviours: sessions of either character, each with a span
\* that outlasts the debounce delay, and alert videos that end late, so
\* that assets wait in the queue
PlayerPayloads == {AtScreen, LookingLeft}

OnPlayerMessage == Deliver(PlayerPayloads, PlayerSamples)

AdvancePlayer == Clock(DebounceMs, PlayerTicks * DebounceMs)

StartPlayerSession == Submit(PlayerRuns)

NextPlayer ==
    \/ StartPlayerSession
    \/ EndLesson
    \/ SetCharacter
    \/ SocketOpen
    \/ OnPlayerMessage
    \/ TimerFire
    \/ AlertEnded
    \/ AdvancePlayer

SpecPlayer == Init /\ [][NextPlayer]_vars

\* The player behaviours under the browser's scheduling: a due timer
\* callback runs, a mounted alert video reaches its end and time does not
\* stop; the user may never submit the form or click a button again, and
\* the socket may stay silent
SpecPlayerLive ==
    /\ Init
    /\ [][NextPlayer]_vars
    /\ WF_vars(TimerFire)
    /\ WF_vars(AlertEnded)
    /\ WF_vars(AdvancePlayer)

\* The alert category alone: one label and talking flag, resolved as the
\* debounce callback resolves its candidate
CategoryProbes ==
    [sample : {Sample(state, {50}, {50}, {35}, NoObjects, <<>>) :
                 state \in Vocabulary},
     config : {defaultVisionConfig},
     includeTalking : BOOLEAN]

InitCategory ==
    /\ InitApp
    /\ pushed = <<>>
    /\ probe \in CategoryProbes
    /\ verdict = <<>>
    /\ attempt = NoAttempt
    /\ alertLog = NoAlerts

ResolveCategory ==
    /\ verdict = <<>>
    /\ verdict' = <<alertKeyForState(probe.sample.state,
                                     probe.includeTalking)>>
    /\ UNCHANGED <<component, samples, sessions, episode, pushed, probe,
                   attempt, alertLog>>

SpecCategory == InitCategory /\ [][ResolveCategory]_vars

\* The resend behaviours: the config sent on connect, on edits and on the
\* ticks of the resync interval, around samples and config echoes
ResendPayloads == {AtScreen, LookingLeft, Talking, EchoTalkingOff}

OnResendMessage == Receive(ResendPayloads, ResendSamples)

AdvanceResend == Pace(ResyncMs, ResendTicks * ResyncMs)

NextResend ==
    \/ EditSettings
    \/ SocketOpen
    \/ OnResendMessage
    \/ ResyncTick
    \/ AdvanceResend

SpecResend == Init /\ [][NextResend]_vars

(***************************************************************************)
(* Properties                                                              *)
(***************************************************************************)
\* The time the current or latest distraction span has lasted
episodeMs ==
    IF episode.state = "open" THEN now - episode.start
    ELSE episode.end - episode.start

\* C1: at most one alert asset is appended to the alert queue for one
\* uninterrupted distraction span of a running session, whatever samples,
\* label changes, character changes, config echoes and timer callbacks
\* interleave with it.
AtMostOneAlertPerEpisode == episode.alerts <= 1

\* A span whose timer was armed more than once and ran more than once, and
\* which queued its one alert
OneAlertAfterManyCallbacks ==
    /\ episode.state = "open"
    /\ episode.arms >= 2
    /\ episode.fires >= 2
    /\ episode.alerts = 1

\* C2: a distraction span that focus recovery ends less than the debounce
\* delay after it started queues no alert: recovery leaves no timer armed,
\* and nothing is appended to the alert queue afterwards.
NoAlertForShortEpisode ==
    (episode.state = "recovered" /\ episodeMs < DebounceMs)
        => (episode.alerts = 0 /\ ~alertTimeout.pending)

\* A span that armed the timer and recovered early, seen once the timer
\* would have been due
ShortEpisodeOutlived ==
    /\ episode.state = "recovered"
    /\ episodeMs < DebounceMs
    /\ episode.arms >= 1
    /\ now >= episode.start + DebounceMs

\* C3: a distraction span of a running session that lasts longer than the
\* debounce delay has run its timer callback, and a span whose callback
\* found a category with an asset has queued exactly one alert, however
\* often a change of label re-armed the timer during the wait.
OneAlertForLongEpisode ==
    /\ (episode.state # "none" /\ episodeMs > DebounceMs)
            => episode.fires >= 1
    /\ episode.resolved => episode.alerts = 1

\* A span longer than the delay whose timer was re-armed during the wait
\* and queued the alert the first time it ran
LongEpisodeRearmed ==
    /\ episode.state = "open"
    /\ episodeMs > DebounceMs
    /\ episode.arms >= 2
    /\ episode.fires = 1
    /\ episode.alerts = 1

\* The rules of the classifier, each read off the sample under test: the
\* label is compared in lower case, the objects in lower case
probeLabel == toLowerCase(Chars(probe.sample.state))

ruleMatches(n) ==
    CASE n = 1 ->
            \E i \in DOMAIN probe.sample.objects.items :
                toLowerCase(Chars(probe.sample.objects.items[i])) \in
                    {Chars("phone"), Chars("cell phone"), Chars("tablet"),
                     Chars("ipad"), Chars("book")}
      [] n = 2 ->
            \/ includes(probeLabel, Chars("phone"))
            \/ includes(probeLabel, Chars("book"))
      [] n = 3 ->
            probe.includeTalking /\ includes(probeLabel, Chars("talking"))
      [] n = 4 -> includes(probeLabel, Chars("no face"))
      [] n = 5 ->
            \E ear \in probe.sample.left_ear :
                ear < probe.config.earThreshold
      [] n = 6 ->
            probeLabel \in {Chars("focused"), Chars("at screen")}
      [] n = 7 ->
            \E h \in probe.sample.h_ratio, v \in probe.sample.v_ratio :
                /\ probe.config.hMin <= h /\ h <= probe.config.hMax
                /\ probe.config.vMin <= v /\ v <= probe.config.vMax
      [] OTHER -> TRUE

ruleVerdicts ==
    <<[threw |-> FALSE, focused |-> FALSE, reason |-> "distractor"],
      [threw |-> FALSE, focused |-> FALSE, reason |-> "distractor"],
      [threw |-> FALSE, focused |-> FALSE, reason |-> "audio"],
      [threw |-> FALSE, focused |-> FALSE, reason |-> "no-face"],
      [threw |-> FALSE, focused |-> FALSE, reason |-> "eyes-closed"],
      [threw |-> FALSE, focused |-> TRUE, reason |-> "state"],
      [threw |-> FALSE, focused |-> TRUE, reason |-> "centered"],
      [threw |-> FALSE, focused |-> FALSE, reason |-> "off-center"]>>

\* C4: for every sample whose objects are missing or an array, the
\* classifier returns the verdict of the first rule that matches, in the
\* order objects, phone/book label, talking label (when talking counts),
\* no-face label, eye ratio under the threshold, focused/at-screen label,
\* gaze inside the window (bounds included), else off-center; so a
\* distractor object beats an "at screen" label.
FirstMatchingRuleWins ==
    verdict # <<>> =>
        \E n \in 1..8 :
            /\ ruleMatches(n)
            /\ \A m \in 1..(n - 1) : ~ruleMatches(m)
            /\ verdict[1] = ruleVerdicts[n]

\* A classified sample with a distractor object and an "at screen" label
DistractorObjectAtScreen ==
    /\ verdict # <<>>
    /\ ruleMatches(1)
    /\ probe.sample.state = "at screen"

\* min(N, capacity) for the N verdicts pushed since the last reset
windowSize == Min(Len(pushed), Capacity)

\* C5: after N verdicts pushed since the last reset the window holds the
\* last min(N, 60) of them as 0/1, oldest first, never more than 60, and
\* focusLevel is their arithmetic mean (1 while nothing was pushed).
LevelIsMeanOfLastVerdicts ==
    /\ Len(focusResults) <= Capacity
    /\ Len(focusResults) = windowSize
    /\ \A i \in 1..windowSize :
        focusResults[i] =
            IF pushed[Len(pushed) - windowSize + i] THEN 1 ELSE 0
    /\ focusLevel.den > 0
    /\ IF pushed = <<>> THEN focusLevel.num = focusLevel.den
       ELSE focusLevel.num * windowSize =
                focusLevel.den *
                    Cardinality({i \in 1..windowSize :
                        pushed[Len(pushed) - windowSize + i]})

\* A session whose window is full and has evicted a verdict that differs
\* from those it holds
OldestVerdictEvicted ==
    /\ lessonStarted
    /\ Len(pushed) > Capacity
    /\ pushed[1]
    /\ \A i \in 2..Len(pushed) : ~pushed[i]

\* C6: the exposed focus state is "distracted" exactly when focusLevel is
\* below 0.7, in every reachable state.
StateAgreesWithLevel ==
    (currentState = "distracted") <=> belowThreshold(focusLevel)

\* C7: the session timeline holds two entries for every distraction span
\* of the session that recovery closed and one for the span that is open,
\* or was open when the session ended; changes of focusLevel or of the
\* resolved label inside a span add none.
TimelineCountsEpisodes ==
    Len(sessionTimeline) =
        2 * episode.completed +
            (IF episode.state \in {"open", "ended"} THEN 1 ELSE 0)

\* A session that ended in a span whose resolved label had changed since
\* the span opened
EndedInRelabelledEpisode ==
    /\ ~lessonStarted
    /\ episode.state = "ended"
    /\ Len(sessionTimeline) = 1
    /\ distractorReason # sessionTimeline[1].label

\* C8: in every session summary focusedSeconds + distractedSeconds equals
\* totalSeconds.
SummarySecondsAddUp ==
    sessionSummary # <<>> =>
        sessionSummary[1].focusedSeconds + sessionSummary[1].distractedSeconds
            = sessionSummary[1].totalSeconds

\* The length of the session that was summarized, ms
sessionMs == episode.sessionEnd - valueOf(sessionStart)

\* C9: every session summary has totalSeconds = max(1, round(length /
\* 1000)) >= 1, the rounding being to the nearest second with halves up,
\* and focusedSeconds = max(totalSeconds - distractedSeconds, 0) >= 0.
SummaryTotalsClamped ==
    sessionSummary # <<>> =>
        /\ sessionSummary[1].totalSeconds >= 1
        /\ \E r \in 0..(sessionMs \div SecondMs + 1) :
            /\ 2 * SecondMs * r - SecondMs <= 2 * sessionMs
            /\ 2 * sessionMs < 2 * SecondMs * r + SecondMs
            /\ sessionSummary[1].totalSeconds = IF r >= 1 THEN r ELSE 1
        /\ sessionSummary[1].focusedSeconds >= 0
        /\ sessionSummary[1].focusedSeconds =
                IF sessionSummary[1].totalSeconds
                        >= sessionSummary[1].distractedSeconds
                THEN sessionSummary[1].totalSeconds
                        - sessionSummary[1].distractedSeconds
                ELSE 0

\* The summary of a session ended at the instant it started
SessionEndedAtOnce ==
    /\ sessionSummary # <<>>
    /\ sessionMs = 0

\* C10: a distraction span that is open when the session ends is closed
\* before the summary is computed: distractedSeconds is the rounded
\* durations of the spans closed by recovery plus the rounded duration of
\* that span, and no span is open once the session has ended.
OpenEpisodeClosedAtEnd ==
    /\ ~lessonStarted => distractedStart = {}
    /\ (episode.state = "ended" /\ sessionSummary # <<>>) =>
            sessionSummary[1].distractedSeconds =
                episode.closedSeconds
                    + roundSeconds(episode.end - episode.start)

\* A session that ended in a span open long enough to count a second,
\* after a span that recovery had closed
EndedInOpenEpisode ==
    /\ episode.state = "ended"
    /\ episode.completed >= 1
    /\ episode.end - episode.start >= TickMs
    /\ sessionSummary # <<>>


\* C11: every sample is classified with the includeTalking value in force
\* when it arrives: the value of the config echo received before it, if
\* any, and the locally configured value otherwise.
EchoDecidesTalking ==
    [][samples' = samples + 1 =>
        probe'.includeTalking =
            effectiveIncludeTalking(backendConfig, visionConfig)]_vars

\* C12: when a socket opens, exactly one config message has been sent on it
\* once its open handler has run, and that message carries the visionConfig
\* of the moment of opening.
OpenSendsCurrentConfig ==
    [][\A i \in DOMAIN sockets :
        (sockets[i].readyState = "connecting"
            /\ sockets'[i].readyState = "open") =>
                sockets'[i].sent = <<visionConfig>>]_vars

\* C13: while a socket is open, every tick of the resync interval and every
\* edit of the settings sends one config message on that socket, carrying
\* the visionConfig as it is after the step.
ResyncReachesOpenSocket ==
    [][(resync' # resync) =>
        \A i \in DOMAIN sockets :
            (sockets[i].readyState = "open"
                /\ sockets'[i].readyState = "open") =>
                    sockets'[i].sent = Append(sockets[i].sent, visionConfig')]_vars

\* The sessions' records the vision link must leave alone
sessionRecords ==
    <<sessionTimeline, distractedTotal, distractedCount, distractedStart,
      sessionStart>>

\* C14: a message that cannot be decoded changes nothing: the sockets, the
\* focus window and level, the label window and the resolved label, the
\* timeline, the accumulators and the alert queue are as before; a message
\* that is decoded and classified, whatever preceded it, appends its
\* verdict to the focus window.
MalformedIsDiscarded ==
    [][samples' = samples + 1 =>
        IF probe'.sample.malformed
        THEN UNCHANGED <<sockets, focusResults, focusLevel, currentState,
                         recentStates, distractorReason, visionState,
                         sessionRecords, alertQueue, activeAlert,
                         alertTimeout, alertQueued>>
        ELSE ~verdict'[1].threw =>
                focusResults' = nextWindow(focusResults, verdict'[1].focused)]_vars

\* An undecodable message that arrived during a distraction span of a
\* running session, after other messages
MalformedDuringEpisode ==
    /\ probe.sample.malformed
    /\ samples >= 2
    /\ lessonStarted
    /\ focusResults # <<>>
    /\ distractedStart # {}
    /\ sessionTimeline # <<>>

\* C15: the classifier returns a verdict for every decoded sample, whatever
\* the types of its fields, and the verdict is pushed to the focus window.
ClassifierAlwaysReturns ==
    (samples > 0 /\ ~probe.sample.malformed) =>
        /\ verdict # <<>>
        /\ ~verdict[1].threw

\* C16: when a socket closes or fails while a session runs, the status is
\* disconnected, the preview frame is cleared and an error message is set,
\* the timeline, the accumulators, the open span and the session start are
\* as before and the session still runs; and whenever a session ends a
\* summary is produced.
LinkLossKeepsSession ==
    [][/\ (lessonStarted
            /\ \E i \in DOMAIN sockets :
                /\ sockets[i].readyState # "closed"
                /\ sockets'[i].readyState = "closed") =>
                    /\ visionStatus' = "disconnected"
                    /\ visionFrame' = ""
                    /\ cameraError' = "Vision backend disconnected."
                    /\ lessonStarted'
                    /\ UNCHANGED sessionRecords
       /\ (lessonStarted /\ ~lessonStarted') =>
            /\ sessionSummary' # <<>>
            /\ sessionTimeline' = sessionTimeline]_vars

\* A session that lost its link while a preview frame was shown and a
\* distraction span was open
LinkLostDuringEpisode ==
    /\ lessonStarted
    /\ visionStatus = "disconnected"
    /\ \E i \in DOMAIN sockets : sockets[i].readyState = "closed"
    /\ probe.sample.preview_jpeg # ""
    /\ sessionTimeline # <<>>
    /\ distractedStart # {}

\* The assets a step appends to the alert queue, counting the one the
\* dequeue effect moves to the player in the same commit
appended ==
    Len(alertQueue') - Len(alertQueue)
        + (IF activeAlert = <<>> /\ activeAlert' # <<>> THEN 1 ELSE 0)

\* C17: ending a session cancels the pending debounce timer: no timer is
\* pending while no session runs, and no step taken while no session runs
\* appends an asset to the alert queue.
EndCancelsDebounce ==
    [][/\ ~lessonStarted' => ~alertTimeout'.pending
       /\ ~lessonStarted => appended <= 0]_vars

\* A session that ended while the timer of its open span was pending, seen
\* once that timer would have been due
EndedBeforeTimerDue ==
    /\ ~lessonStarted
    /\ episode.state = "ended"
    /\ episode.arms >= 1
    /\ episode.fires = 0
    /\ episode.alerts = 0
    /\ episode.end < episode.start + DebounceMs
    /\ now >= episode.start + DebounceMs

\* C18: after a session has ended and until the next one starts, the resync
\* interval sends no config message: a tick of the interval leaves what was
\* sent on every socket as it was.
EndCancelsResync ==
    [][(sessions >= 1 /\ ~lessonStarted /\ ~lessonStarted'
            /\ resync' # resync /\ visionConfig' = visionConfig) =>
        \A i \in DOMAIN sockets : sockets'[i].sent = sockets[i].sent]_vars

\* C19: ending a session closes the vision connection: once the step that
\* ends the session is done, no socket is connecting or open.
EndClosesSocket ==
    [][(lessonStarted /\ ~lessonStarted') =>
        \A i \in DOMAIN sockets' :
            sockets'[i].readyState \notin {"connecting", "open"}]_vars

\* C20: once the countdown of a running session has reached zero, the
\* session is terminated without an End command: it is no longer running
\* and a summary has been produced.
CountdownEndsSession ==
    (lessonStarted /\ remainingSeconds = 0) ~>
        (~lessonStarted /\ sessionSummary # <<>>)

\* The texts of the study-length input that are empty or blank, not a
\* number, not finite, zero or negative
InvalidTexts == {"", " ", "abc", "1e999", "0", "-5"}

\* C21: a submission of the form with an invalid study length is rejected
\* with no state change: the session is not started and remaining time,
\* focus window, focus level, timeline, accumulators, summary and session
\* start are what they were.
RejectedChangesNothing ==
    [][(attempt'.count # attempt.count /\ attempt'.text \in InvalidTexts) =>
        /\ ~lessonStarted'
        /\ UNCHANGED component]_vars

\* A study length of zero was submitted and rejected after a session that
\* received samples has ended
RejectedAfterSession ==
    /\ attempt.text = "0"
    /\ attempt.count >= 2
    /\ sessions = 1
    /\ ~lessonStarted
    /\ sessionSummary # <<>>
    /\ focusResults # <<>>

\* C22: endLesson called while no session runs is a no-op: no step taken
\* from a state without a running session to a state without one changes
\* the summary, the timeline or the accumulators, before the first session
\* and after a session has ended.
IdleEndChangesNothing ==
    [][(~lessonStarted /\ ~lessonStarted') =>
        UNCHANGED <<sessionSummary, sessionTimeline, distractedStart,
                    distractedTotal, distractedCount>>]_vars

\* C23: after every accepted submission of the form, whatever the state
\* before it, the focus window is empty, the focus level is 1.0 and the
\* focus state is focused.
StartResetsFocus ==
    [][(~lessonStarted /\ lessonStarted') =>
        /\ focusResults' = <<>>
        /\ focusLevel' = levelOne
        /\ currentState' = "focused"]_vars

\* C24: every accepted submission of the form, the first and the one after
\* an earlier session, resets the per-session state: the timeline is
\* empty, the distracted seconds and the span count are 0, no span is open,
\* the summary of the session before is cleared and the session start is
\* the time of the submission.
StartResetsSession ==
    [][(~lessonStarted /\ lessonStarted') =>
        /\ sessionTimeline' = <<>>
        /\ distractedTotal' = 0
        /\ distractedCount' = 0
        /\ distractedStart' = {}
        /\ sessionSummary' = <<>>
        /\ sessionStart' = {now}]_vars

\* A second session just started, later than the first, after samples were
\* received that left the state distracted
SecondSessionStarted ==
    /\ lessonStarted
    /\ sessions = 2
    /\ now > 0
    /\ sessionStart = {now}
    /\ sessionSummary = <<>>
    /\ sessionTimeline = <<>>
    /\ recentStates # <<>>
    /\ currentState = "distracted"

DroppedStaysDropped ==
    [][(/\ episode.state = "open"
        /\ episode.fires >= 1
        /\ ~episode.resolved
        /\ episode'.state = "open"
        /\ episode'.start = episode.start) =>
        episode'.alerts = 0]_vars

\* The category the fixed mapping gives a value: side if it contains left
\* or right, up if it contains up or is eyes-closed, phone if it contains
\* phone, book or down, talking if it contains talking and talking is
\* included, none otherwise
categoryOf(value, includeTalking) ==
    IF labelIncludes(value, "left") \/ labelIncludes(value, "right")
        THEN "side"
    ELSE IF \/ labelIncludes(value, "up")
            \/ normalizeState(value) = Chars("eyes-closed")
        THEN "up"
    ELSE IF \/ labelIncludes(value, "phone")
            \/ labelIncludes(value, "book")
            \/ labelIncludes(value, "down")
        THEN "phone"
    ELSE IF labelIncludes(value, "talking") /\ includeTalking
        THEN "talking"
    ELSE ""

\* C27: the category the debounce callback resolves is the one the fixed
\* mapping gives the value: left or right -> side; up or eyes-closed -> up;
\* phone, book or down -> phone; talking -> talking if the effective
\* talking inclusion is enabled and none otherwise; any other value ->
\* none.
CategoryFollowsMapping ==
    verdict # <<>> =>
        verdict[1] = categoryOf(probe.sample.state, probe.includeTalking)

\* The label with the most occurrences among labels, compared trimmed and
\* lower-cased, leaving out focused and at screen and, unless talking is
\* included, the labels that contain talking; of several, the one seen
\* first; "" when no label qualifies
mostFrequentLabel(labels, includeTalking) ==
    LET key(i) == normalizeState(labels[i])
        qualifying ==
            {i \in DOMAIN labels :
                /\ key(i) # <<>>
                /\ key(i) \notin {Chars("focused"), Chars("at screen")}
                /\ includeTalking \/ ~labelIncludes(labels[i], "talking")}
        occurrences(i) == Cardinality({j \in qualifying : key(j) = key(i)})
        most == {i \in qualifying :
                    \A j \in qualifying : occurrences(j) <= occurrences(i)}
    IN  IF most = {} THEN ""
        ELSE labels[CHOOSE i \in most : \A j \in most : i <= j]

\* C28: after each message that carries a state label, the resolved
\* distraction label is the most frequent of the labels received last (at
\* most 60), leaving out focused and at screen and, when the effective
\* talking inclusion is disabled as the message arrives, the labels that
\* contain talking; ties go to the label seen first and the result is
\* empty when no label qualifies.
ReasonIsMostFrequentLabel ==
    [][(samples' = samples + 1 /\ probe'.sample.state # "") =>
        distractorReason' =
            mostFrequentLabel(recentStates',
                effectiveIncludeTalking(backendConfig, visionConfig))]_vars

\* C29: in every state of a running session a distraction span is open or
\* a debounce timer pending only if the focus level is below 0.7 and
\* tracking is enabled.
EpisodeNeedsTracking ==
    (lessonStarted /\ (distractedStart # {} \/ alertTimeout.pending)) =>
        (belowThreshold(focusLevel) /\ trackingEnabled)

\* A step that sends the config again: a socket opens, or the resync
\* interval ticks
resends ==
    \/ \E i \in DOMAIN sockets :
        sockets[i].readyState = "connecting" /\ sockets'[i].readyState = "open"
    \/ resync'.config = resync.config /\ resync'.due # resync.due

\* C30: sending the config again, on connect or on a resync tick, changes
\* neither the client's detection config nor the effective talking
\* inclusion nor the focus window, so every sample is classified after the
\* step as it was before.
ResendChangesNothing ==
    [][resends =>
        /\ UNCHANGED <<visionConfig, backendConfig, focusResults, focusLevel>>
        /\ \A i \in DOMAIN sockets, p \in ResendPayloads :
            evaluateFocus(p, sockets'[i].visionConfig,
                          sockets'[i].includeTalking)
                = evaluateFocus(p, sockets[i].visionConfig,
                                sockets[i].includeTalking)]_vars

\* Three config messages were sent on one socket, the last two the
\* client's edited config, after a config echo and a sample were received
SentThreeTimes ==
    /\ \E i \in DOMAIN sockets :
        /\ Len(sockets[i].sent) >= 3
        /\ sockets[i].sent[2] = visionConfig
        /\ sockets[i].sent[3] = visionConfig
    /\ visionConfig # defaultVisionConfig
    /\ backendConfig # <<>>
    /\ focusResults # <<>>

\* C31: while a session runs the timeline is append-only and ordered by
\* time: every step of a running session keeps the entries it found as a
\* prefix of the new list, and elapsedSeconds never decreases along the
\* list.
TimelineAppendOnly ==
    [][/\ (lessonStarted /\ lessonStarted') =>
            /\ Len(sessionTimeline') >= Len(sessionTimeline)
            /\ SubSeq(sessionTimeline', 1, Len(sessionTimeline))
                    = sessionTimeline
       /\ \A i \in 1..(Len(sessionTimeline') - 1) :
            sessionTimeline'[i].elapsedSeconds
                <= sessionTimeline'[i + 1].elapsedSeconds]_vars

\* A running session whose timeline has three entries, the last one later
\* than the first
ThreeEntriesInOrder ==
    /\ lessonStarted
    /\ Len(sessionTimeline) >= 3
    /\ sessionTimeline[1].elapsedSeconds < sessionTimeline[3].elapsedSeconds

\* C32: every sample is classified against the thresholds of the settings
\* as they are when it arrives, also on a socket opened before the last
\* edit.
ClassifiedAgainstEditedConfig ==
    [][(samples' = samples + 1 /\ ~probe'.sample.malformed) =>
        verdict' = <<evaluateFocus(probe'.sample, visionConfig,
                                   probe'.includeTalking)>>]_vars

\* The elapsed seconds of the running session after the step
elapsedAfter == roundSeconds(now' - valueOf(sessionStart'))

\* C33: in a running session a step that takes the focus level below 0.7
\* appends exactly one entry {elapsedSeconds, distracted, label}, the label
\* being the resolved label or "distracted" when there is none; a step
\* that takes it back appends exactly one entry {elapsedSeconds, focused,
\* "focused"} and adds the rounded length of the span to the distracted
\* seconds; any other step, a change of the resolved label included,
\* appends nothing and changes no accumulator.
EdgesWriteTimeline ==
    [][(lessonStarted /\ lessonStarted') =>
        /\ (~belowThreshold(focusLevel) /\ belowThreshold(focusLevel')) =>
            /\ sessionTimeline' = Append(sessionTimeline,
                    [elapsedSeconds |-> elapsedAfter,
                     state |-> "distracted",
                     label |-> IF distractorReason' # ""
                               THEN distractorReason' ELSE "distracted"])
            /\ distractedCount' = distractedCount + 1
            /\ distractedTotal' = distractedTotal
        /\ (belowThreshold(focusLevel) /\ ~belowThreshold(focusLevel')) =>
            /\ sessionTimeline' = Append(sessionTimeline,
                    [elapsedSeconds |-> elapsedAfter,
                     state |-> "focused", label |-> "focused"])
            /\ distractedTotal' = distractedTotal
                    + roundSeconds(now' - valueOf(distractedStart))
            /\ distractedCount' = distractedCount
        /\ (belowThreshold(focusLevel) <=> belowThreshold(focusLevel')) =>
            UNCHANGED <<sessionTimeline, distractedTotal,
                        distractedCount>>]_vars

\* A running session inside the span it opened two seconds ago, whose
\* resolved label has changed since the opening entry was written
RelabelledInsideSpan ==
    /\ lessonStarted
    /\ Len(sessionTimeline) = 1
    /\ sessionTimeline[1].state = "distracted"
    /\ distractedCount = 1
    /\ distractorReason # ""
    /\ distractorReason # sessionTimeline[1].label
    /\ now >= valueOf(distractedStart) + 2 * SecondMs

\* C34: the alerts figure of the summary is the number of distraction
\* spans the session opened, the one still open at its end included,
\* whatever the number of assets queued.
SummaryCountsSpans ==
    (~lessonStarted /\ sessionSummary # <<>>) =>
        sessionSummary[1].alerts =
            episode.completed + (IF episode.state = "ended" THEN 1 ELSE 0)

\* A session summarized with two spans, the second open at its end, in
\* which no asset was queued
TwoSpansNoAlert ==
    /\ ~lessonStarted
    /\ sessionSummary # <<>>
    /\ sessionSummary[1].alerts = 2
    /\ episode.state = "ended"
    /\ episode.completed = 1
    /\ alertLog.queued = <<>>

\* The step armed or re-armed the debounce timer
timerArmed ==
    \/ episode'.state = "open" /\ episode.state # "open" /\ episode'.arms = 1
    \/ episode'.state = "open" /\ episode.state = "open"
            /\ episode'.arms = episode.arms + 1

\* C35: a debounce timer armed or re-armed during a distraction span is due
\* at the later of the time it is armed and the start of the span plus the
\* debounce delay, so that re-arming never moves the alert past that
\* instant.
RearmKeepsDeadline ==
    [][timerArmed =>
        /\ alertTimeout'.pending
        /\ alertTimeout'.due = Max(now', episode'.start + DebounceMs)]_vars

\* A span whose timer was re-armed after its start and is still due at the
\* start plus the delay
RearmedBeforeDeadline ==
    /\ episode.state = "open"
    /\ episode.arms >= 2
    /\ now > episode.start
    /\ now < episode.start + DebounceMs
    /\ alertTimeout.pending
    /\ alertTimeout.due = episode.start + DebounceMs

\* The alert video is mounted, and so playing its source, only while a
\* session runs and an asset is active
alertPlaying == lessonStarted /\ activeAlert # <<>>

\* C36: whenever an asset waits in the queue while nothing is playing, the
\* head of the queue eventually becomes the active asset: the number of
\* assets made active grows.
PlayerNeverStalls ==
    \A n \in 0..(PlayerRuns * PlayerSamples) :
        (alertQueue # <<>> /\ ~alertPlaying /\ Len(alertLog.played) = n)
            ~> (Len(alertLog.played) > n)

\* C37: the close of a connection that socketRef no longer names, because
\* a newer connection has replaced it, leaves socketRef and the link status
\* as they are.
StaleCloseLeavesNewer ==
    [][\A i \in DOMAIN sockets :
        (/\ sockets[i].readyState # "closed"
         /\ sockets'[i].readyState = "closed"
         /\ socketRef # 0
         /\ socketRef # i) =>
            /\ socketRef' = socketRef
            /\ visionStatus' = visionStatus]_vars

\* C38: the step that starts a session leaves the alert queue empty and no
\* asset active.
SessionStartsWithIdlePlayer ==
    [][(~lessonStarted /\ lessonStarted') =>
        (alertQueue' = <<>> /\ activeAlert' = <<>>)]_vars

\* C39: a sample received while no session runs leaves the timeline, the
\* distracted seconds, the span counter, the open span, the debounce timer
\* and the alert queue as they are, and no timer is pending after it.
IdleSampleLeavesSession ==
    [][(samples' = samples + 1 /\ ~lessonStarted) =>
        /\ UNCHANGED <<sessionTimeline, distractedTotal, distractedCount,
                       distractedStart, alertTimeout, alertQueued,
                       alertQueue, activeAlert>>
        /\ ~alertTimeout'.pending]_vars

\* After a session that ended with the focus level at 0.7 or more, samples
\* received since have taken the level below 0.7 with a label resolved
IdleBelowThreshold ==
    /\ ~lessonStarted
    /\ sessions >= 1
    /\ episode.state \in {"none", "recovered"}
    /\ belowThreshold(focusLevel)
    /\ distractorReason # ""

\* round(minutes x 60) of each study length, computed by hand: 0.06, 1.5
\* and 3 seconds
studySeconds ==
    [text \in StudyLengths |->
        CASE text = "0.001" -> 0
          [] text = "0.025" -> 2
          [] text = "0.05" -> 3]

\* The step ran the callback of the countdown interval of a running session
countdownTicked == lessonStarted /\ lessonStarted' /\ countdown' # countdown

\* C40: in a running session every tick of the countdown finds the
\* remaining seconds positive and takes exactly one off, no other step
\* changes them, they are never negative, and the step that starts a session
\* sets them to round(minutes x 60).
CountdownStepsByOne ==
    [][/\ countdownTicked =>
            (remainingSeconds > 0
                /\ remainingSeconds' = remainingSeconds - 1)
       /\ (lessonStarted /\ lessonStarted' /\ ~countdownTicked) =>
            remainingSeconds' = remainingSeconds
       /\ remainingSeconds' >= 0
       /\ (~lessonStarted /\ lessonStarted') =>
            remainingSeconds' = studySeconds[attempt'.text]]_vars

\* A session of 0.025 minutes whose countdown has run from 2 to 0
CountdownRanOut ==
    /\ lessonStarted
    /\ attempt.text = "0.025"
    /\ remainingSeconds = 0
    /\ ~countdown.pending
    /\ now >= valueOf(sessionStart) + 2 * SecondMs

====
